---------------------------- MODULE Spec2Model ----------------------------
(***************************************************************************)
(* Model of the dom interpreter core (dom_core): the value model, the      *)
(* scope-chain environment (environment.rs), the tree-walking evaluator    *)
(* (interpreter.rs), the list builtins (dom_std/list.rs) and the CLI hooks *)
(* (dom_cli/hooks.rs).                                                     *)
(*                                                                         *)
(* Three specifications share the variables:                               *)
(*   SpecEnv  a host driving the public Env API on a tree of nodes         *)
(*   Spec     a REPL session: one statement tree is evaluated per step in  *)
(*            the same root environment (dom_cli keeps the environment     *)
(*            between prompts)                                             *)
(*   SpecLock threads running Env operations on one tree, one Mutex        *)
(*            acquisition or one critical section per step                 *)
(***************************************************************************)
EXTENDS Integers, Sequences, FiniteSets, TLC

VARIABLES
    envs,      \* heap of Env nodes; the index is the Arc<Mutex<Env>> identity
    regs,      \* heap of BuiltinRegistry objects: name -> builtin function
    last,      \* the operation performed by the last step and its outcome
    trace,     \* events of the last evaluation, in execution order
    status,    \* "running", "exited" after an Err, "aborted" after a panic
    steps,     \* number of steps taken (bounded)
    build,     \* "debug" or "release": whether integer overflow is checked
    threads    \* SpecLock: per thread, the operation it is in and the
               \* MutexGuards it holds

vars == <<envs, regs, last, trace, status, steps, build, threads>>

---------------------------------------------------------------------------
(* Bounds *)

MaxEnvs == 3        \* SpecEnv: nodes a host creates
MaxApiSteps == 5    \* SpecEnv: API calls per run
MaxSteps == 3       \* Spec: statements fed to the REPL
MaxIter == 3        \* Spec: loop iterations and calls started per evaluation
NumThreads == 2     \* SpecLock: threads sharing the tree
MaxLockOps == 3     \* SpecLock: operations started, all threads together

---------------------------------------------------------------------------
(* Values: environment.rs, struct Val and enum ValKind.  Every value is a  *)
(* record with the same fields; a field that the kind does not use keeps   *)
(* its default.  ident is Option<Ident>: <<>> is None, <<n>> is Some(n).   *)
(* A Str holds its text as a sequence of characters.                       *)

MkVal(kind) ==
    [ident |-> <<>>, kind |-> kind, b |-> FALSE, n |-> 0, s |-> <<>>,
     items |-> <<>>, fname |-> "", params |-> <<>>, body |-> <<>>, env |-> 0]

NONE == MkVal("None")
BoolVal(b) == [MkVal("Bool") EXCEPT !.b = b]
IntVal(n) == [MkVal("Int") EXCEPT !.n = n]
StrVal(s) == [MkVal("Str") EXCEPT !.s = s]
ListVal(items) == [MkVal("List") EXCEPT !.items = items]
FuncVal(ident, params, body, env) ==
    [MkVal("Func") EXCEPT !.fname = ident, !.params = params,
                          !.body = body, !.env = env]
ModVal(env) == [MkVal("Mod") EXCEPT !.env = env]

with_ident(value, ident) == [value EXCEPT !.ident = <<ident>>]

---------------------------------------------------------------------------
(* Results: miette::Result<Val>.  tag is "Ok", "Err" (an EnvError or       *)
(* InterpreterError named by err), "Exc" (an Exception: err is "Break",    *)
(* "Continue" or "Return" and ret the Option<Box<Expr>> of a Return),      *)
(* "Panic" (unwrap/expect/unreachable!/index out of range) or "Timeout"    *)
(* (the evaluation did not finish within MaxIter iterations).              *)

Ok(value) == [tag |-> "Ok", val |-> value, err |-> "", ret |-> <<>>]
Err(e) == [tag |-> "Err", val |-> NONE, err |-> e, ret |-> <<>>]
Exc(e, ret) == [tag |-> "Exc", val |-> NONE, err |-> e, ret |-> ret]
Panic(msg) == [tag |-> "Panic", val |-> NONE, err |-> msg, ret |-> <<>>]
Timeout == [tag |-> "Timeout", val |-> NONE, err |-> "", ret |-> <<>>]

---------------------------------------------------------------------------
(* Environment nodes: environment.rs, struct Env.  parent is 0 for None.   *)
(* values is a function whose domain is the set of bound names.            *)

EmptyMap == [x \in {} |-> NONE]

MapInsert(m, name, value) ==
    [x \in DOMAIN m \cup {name} |-> IF x = name THEN value ELSE m[x]]

NewEnv(parent, builtins) ==
    [parent |-> parent, values |-> EmptyMap, builtins |-> builtins]

(* Env::with_parent: a node with no bindings, the given parent and the     *)
(* parent's registry reference.  Returns the heap; the new node is the     *)
(* last one.                                                               *)
with_parent(h, parent) == Append(h, NewEnv(parent, h[parent].builtins))

(* Env::with_builtins *)
with_builtins(h, builtins) == Append(h, NewEnv(0, builtins))

(* A resolve that prefers the binding farthest from n (nearest the root). *)
RECURSIVE resolve_farthest(_, _, _)
resolve_farthest(h, n, name) ==
    LET up == IF h[n].parent # 0 THEN resolve_farthest(h, h[n].parent, name)
              ELSE 0
    IN IF up # 0 THEN up
       ELSE IF name \in DOMAIN h[n].values THEN n ELSE 0

(* Env::resolve: the nearest node from n towards the root that binds name, *)
(* 0 for IdentifierNotFound.                                               *)
RECURSIVE resolve(_, _, _)
resolve(h, n, name) ==
    IF name \in DOMAIN h[n].values THEN n
    ELSE IF h[n].parent # 0 THEN resolve(h, h[n].parent, name)
    ELSE 0

(* A declare that refuses any name visible through the chain. *)
declare_no_shadow(h, n, name, value) ==
    IF resolve(h, n, name) # 0
    THEN [h |-> h, r |-> Err("IdentifierAlreadyExists")]
    ELSE LET v == with_ident(value, name)
         IN [h |-> [h EXCEPT ![n].values = MapInsert(@, name, v)],
             r |-> Ok(v)]

(* Env::declare, on node n.  Returns the heap and the result. *)
declare(h, n, name, value) ==
    IF name \in DOMAIN h[n].values
    THEN [h |-> h, r |-> Err("IdentifierAlreadyExists")]
    ELSE LET v == with_ident(value, name)
         IN [h |-> [h EXCEPT ![n].values = MapInsert(@, name, v)],
             r |-> Ok(v)]

(* Env::declare_unchecked *)
declare_unchecked(h, n, name, value) ==
    [h EXCEPT ![n].values = MapInsert(@, name, value)]

(* An assign that writes into the starting node whatever node binds the   *)
(* name.                                                                   *)
assign_in_place(h, n, name, value) ==
    LET e == resolve(h, n, name)
    IN IF e = 0
       THEN [h |-> h, r |-> Err("IdentifierNotFound")]
       ELSE [h |-> [h EXCEPT ![n].values = MapInsert(@, name, value)],
             r |-> Ok(value)]

(* An assign that creates the binding in the starting node when no node    *)
(* binds the name.                                                         *)
assign_or_create(h, n, name, value) ==
    LET e == resolve(h, n, name)
        t == IF e = 0 THEN n ELSE e
    IN [h |-> [h EXCEPT ![t].values = MapInsert(@, name, value)],
        r |-> Ok(value)]

(* Env::assign *)
assign(h, n, name, value) ==
    LET e == resolve(h, n, name)
    IN IF e = 0
       THEN [h |-> h, r |-> Err("IdentifierNotFound")]
       ELSE [h |-> [h EXCEPT ![e].values = MapInsert(@, name, value)],
             r |-> Ok(value)]

(* Env::assign_unchecked: resolve(..).unwrap() panics when no node binds   *)
(* the name.                                                               *)
assign_unchecked(h, n, name, value) ==
    LET e == resolve(h, n, name)
    IN IF e = 0
       THEN [h |-> h, r |-> Panic("unwrap on IdentifierNotFound")]
       ELSE [h |-> [h EXCEPT ![e].values = MapInsert(@, name, value)],
             r |-> Ok(value)]

(* Env::lookup *)
lookup(h, n, name) ==
    LET e == resolve(h, n, name)
    IN IF e = 0 THEN Err("IdentifierNotFound") ELSE Ok(h[e].values[name])

(* BuiltinRegistry::register / Env::register_builtin: last one wins. *)
register(reg, name, fn) == MapInsert(reg, name, fn)

(* Env::lookup_builtin: "" when the registry has no such name. *)
lookup_builtin(h, rg, n, name) ==
    LET reg == rg[h[n].builtins]
    IN IF name \in DOMAIN reg THEN reg[name] ELSE ""

---------------------------------------------------------------------------
(* Threads and locks.  A lock is the Mutex of an Env node or of a          *)
(* BuiltinRegistry; held is the sequence of MutexGuards a thread owns, in  *)
(* the order it acquired them.                                             *)

Threads == 1..NumThreads

EnvLock(n) == <<"env", n>>
RegLock(r) == <<"reg", r>>
NoLock == <<>>

(* A thread that is in no operation. *)
Idle == [op |-> "none", pc |-> "idle", node |-> 0, name |-> "", cur |-> 0,
         held |-> <<>>]

NoThreads == [t \in Threads |-> Idle]

---------------------------------------------------------------------------
(* SpecEnv: a host calling the Env API, as the tests of environment.rs do. *)

ApiNames == {"foo", "bar"}
ApiVals == {IntVal(0), IntVal(1), with_ident(IntVal(1), "bar")}

NoOp == [op |-> "init", node |-> 0, name |-> "", arg |-> NONE, res |-> Ok(NONE),
         pre |-> <<>>, rg |-> <<>>, prog |-> <<>>]

Init ==
    /\ envs = <<NewEnv(0, 1)>>      \* Env::new()
    /\ regs = <<EmptyMap>>          \* BuiltinRegistry::default()
    /\ last = NoOp
    /\ trace = <<>>
    /\ status = "running"
    /\ steps = 0
    /\ build = "debug"
    /\ threads = NoThreads

ApiGuard == status = "running" /\ steps < MaxApiSteps

ApiWithParent(p) ==
    /\ ApiGuard
    /\ Len(envs) < MaxEnvs
    /\ envs' = with_parent(envs, p)
    /\ last' = [op |-> "with_parent", node |-> p, name |-> "", arg |-> NONE,
                res |-> Ok(NONE), pre |-> envs, rg |-> regs,
                prog |-> <<>>]
    /\ steps' = steps + 1
    /\ UNCHANGED <<regs, trace, status, build, threads>>

ApiDeclare(n, name, value) ==
    /\ ApiGuard
    /\ LET o == declare(envs, n, name, value)
       IN /\ envs' = o.h
          /\ last' = [op |-> "declare", node |-> n, name |-> name,
                      arg |-> value, res |-> o.r, pre |-> envs,
                      rg |-> regs, prog |-> <<>>]
    /\ steps' = steps + 1
    /\ UNCHANGED <<regs, trace, status, build, threads>>

ApiAssign(n, name, value) ==
    /\ ApiGuard
    /\ LET o == assign(envs, n, name, value)
       IN /\ envs' = o.h
          /\ last' = [op |-> "assign", node |-> n, name |-> name,
                      arg |-> value, res |-> o.r, pre |-> envs,
                      rg |-> regs, prog |-> <<>>]
    /\ steps' = steps + 1
    /\ UNCHANGED <<regs, trace, status, build, threads>>

ApiLookup(n, name) ==
    /\ ApiGuard
    /\ last' = [op |-> "lookup", node |-> n, name |-> name, arg |-> NONE,
                res |-> lookup(envs, n, name), pre |-> envs, rg |-> regs,
                prog |-> <<>>]
    /\ steps' = steps + 1
    /\ UNCHANGED <<envs, regs, trace, status, build, threads>>

NextEnv ==
    \/ \E p \in 1..Len(envs) : ApiWithParent(p)
    \/ \E n \in 1..Len(envs), name \in ApiNames, value \in ApiVals :
           ApiDeclare(n, name, value)
    \/ \E n \in 1..Len(envs), name \in ApiNames, value \in ApiVals :
           ApiAssign(n, name, value)
    \/ \E n \in 1..Len(envs), name \in ApiNames : ApiLookup(n, name)

SpecEnv == Init /\ [][NextEnv]_vars

---------------------------------------------------------------------------
(* Syntax trees: ast.rs.  A node is a record whose field t names the Stmt  *)
(* or ExprKind variant; Option<Box<Expr>> is a sequence of length 0 or 1.  *)

Program(body) == [t |-> "Program", body |-> body]
Cond(condition, body) == [t |-> "Cond", condition |-> condition, body |-> body]
Func(ident, params, body) ==
    [t |-> "Func", ident |-> ident, params |-> params, body |-> body]
Loop(body) == [t |-> "Loop", body |-> body]
Var(ident, value) == [t |-> "Var", ident |-> ident, value |-> value]
Use(path) == [t |-> "Use", path |-> path]
Assignment(assignee, value) ==
    [t |-> "Assignment", assignee |-> assignee, value |-> value]
Call(caller, args) == [t |-> "Call", caller |-> caller, args |-> args]
List(items) == [t |-> "List", items |-> items]
Ident(ident) == [t |-> "Ident", ident |-> ident]
Bool(b) == [t |-> "Bool", b |-> b]
IntExpr(n) == [t |-> "Int", n |-> n]
Str(s) == [t |-> "Str", s |-> s]
Return(value) == [t |-> "Return", value |-> value]
Continue == [t |-> "Continue"]
Break == [t |-> "Break"]
Mod(module, item) == [t |-> "Mod", module |-> module, item |-> item]
Pipe(left, right) == [t |-> "Pipe", left |-> left, right |-> right]
LogicOp(left, right, op) ==
    [t |-> "LogicOp", left |-> left, right |-> right, op |-> op]
RelOp(left, right, op) ==
    [t |-> "RelOp", left |-> left, right |-> right, op |-> op]
UnaryOp(expr, op) == [t |-> "UnaryOp", expr |-> expr, op |-> op]
BinaryOp(left, right, op) ==
    [t |-> "BinaryOp", left |-> left, right |-> right, op |-> op]
Nop == [t |-> "Nop"]

---------------------------------------------------------------------------
(* Evaluation state threaded through the recursive evaluator:              *)
(*   h     the heap of Env nodes          rg    the registries             *)
(*   tr    the event log                  fuel  iterations and calls left  *)
(*   nact  number of activations (loops, conditionals, calls) started      *)
(*   build the build profile                                               *)
(* An evaluation returns [r |-> result, st |-> state].                     *)

Out(r, st) == [r |-> r, st |-> st]

(* Event log.  e is the kind of event, a the activation it belongs to      *)
(* (0 is the program body), i a statement or parameter index, env the      *)
(* environment the event is about, encl the environment of the enclosing   *)
(* statement, r a result, h the heap when the event is logged and s the    *)
(* syntax (or builtin call) concerned.                                     *)
Ev(e, a, i, env, encl, r, h, s) ==
    [e |-> e, a |-> a, i |-> i, env |-> env, encl |-> encl, r |-> r,
     h |-> h, s |-> s]

Log(st, e, a, i, env, encl, r, s) ==
    [st EXCEPT !.tr = Append(@, Ev(e, a, i, env, encl, r, st.h, s))]

(* Files the host can read for `use`: dom_cli/hooks.rs reads ".<path>.dom" *)
(* and parses it.  Two files exist, one of them at a path the ModuleHook   *)
(* recognises; any other path is not found.                                *)
ModuleFiles ==
    [p \in {"lib/m", "std/str"} |->
        IF p = "lib/m"
        THEN <<Var("v", IntExpr(7)), Func("g", <<"q">>, <<Ident("q")>>)>>
        ELSE <<Var("v", IntExpr(8))>>]

(* The range of i32. *)
I32Max == 2147483647
I32Min == -I32Max - 1

(* Int32Ext::to_wrapped_index (std.rs): (len + index) % len on i32 with    *)
(* Rust's truncating remainder, then `as usize`.  Returns -1 for a panic:  *)
(* a zero divisor, or a sum past i32::MAX in a build with overflow checks  *)
(* (the sum wraps to a negative number otherwise).  A negative remainder   *)
(* becomes a huge usize, modelled as an index past any list.               *)
TruncRem(a, b) == IF a >= 0 \/ a % b = 0 THEN a % b ELSE (a % b) - b

to_wrapped_index(index, len, profile) ==
    IF index > I32Max - len
    THEN IF profile = "debug" THEN -1
         ELSE IF len = 0 THEN -1
         ELSE LET m == TruncRem((index - I32Max) + (len - I32Max) - 2, len)
              IN IF m < 0 THEN len + 1 ELSE m
    ELSE IF len = 0 THEN -1
    ELSE LET m == TruncRem(len + index, len)
         IN IF m < 0 THEN len + 1 ELSE m

RemoveAt(list, k) ==
    [j \in 1..(Len(list) - 1) |-> IF j < k THEN list[j] ELSE list[j + 1]]

(* The write-back shared by SetFn, PushFn and PopFn: without a tag the new *)
(* list is returned, with a tag it is assigned to that name from the call  *)
(* environment (Env::assign_unchecked).                                    *)
write_back(ident, list, env, st) ==
    IF ident = <<>> THEN Out(Ok(ListVal(list)), st)
    ELSE LET o == assign_unchecked(st.h, env, ident[1], ListVal(list))
         IN Out(o.r, [st EXCEPT !.h = o.h])

(* BuiltinFn::run for the functions of dom_core/std.rs and the LenFn of    *)
(* dom_std/str.rs (StrLenFn).  `&args[..k]` and                            *)
(* `args[0]` panic when fewer arguments are given; a pattern that does not *)
(* match returns None, which the caller turns into Val::NONE; list.get(i)  *)
(* out of range is None as well.                                           *)
run(fn, args, env, st) ==
    CASE fn = "PrintFn" -> Out(Ok(NONE), st)
      [] fn = "InputFn" -> Out(Ok(StrVal(<<>>)), st)
      [] fn = "GetFn" ->
            IF Len(args) < 2 THEN Out(Panic("range end out of bounds"), st)
            ELSE IF args[1].kind # "List" \/ args[2].kind # "Int"
            THEN Out(Ok(NONE), st)
            ELSE LET k == to_wrapped_index(args[2].n, Len(args[1].items), st.build)
                 IN IF k = -1 THEN Out(Panic("remainder or overflow"), st)
                    ELSE IF k + 1 \in 1..Len(args[1].items)
                    THEN Out(Ok(args[1].items[k + 1]), st)
                    ELSE Out(Ok(NONE), st)
      [] fn = "SetFn" ->
            IF Len(args) < 3 THEN Out(Panic("range end out of bounds"), st)
            ELSE IF args[1].kind # "List" \/ args[2].kind # "Int"
            THEN Out(Ok(NONE), st)
            ELSE LET k == to_wrapped_index(args[2].n, Len(args[1].items), st.build)
                 IN IF k = -1 THEN Out(Panic("remainder or overflow"), st)
                    ELSE IF k + 1 \notin 1..Len(args[1].items)
                    THEN Out(Panic("index out of bounds"), st)
                    ELSE write_back(args[1].ident,
                                    [args[1].items EXCEPT ![k + 1] = args[3]],
                                    env, st)
      [] fn = "PushFn" ->
            IF Len(args) < 2 THEN Out(Panic("range end out of bounds"), st)
            ELSE IF args[1].kind # "List" THEN Out(Ok(NONE), st)
            ELSE write_back(args[1].ident, Append(args[1].items, args[2]),
                            env, st)
      [] fn = "PopFn" ->
            IF Len(args) < 2 THEN Out(Panic("range end out of bounds"), st)
            ELSE IF args[1].kind # "List" \/ args[2].kind # "Int"
            THEN Out(Ok(NONE), st)
            ELSE LET k == to_wrapped_index(args[2].n, Len(args[1].items), st.build)
                 IN IF k = -1 THEN Out(Panic("remainder or overflow"), st)
                    ELSE IF k + 1 \notin 1..Len(args[1].items)
                    THEN Out(Panic("removal index out of bounds"), st)
                    ELSE write_back(args[1].ident,
                                    RemoveAt(args[1].items, k + 1), env, st)
      [] fn = "LenFn" ->
            IF Len(args) < 1 THEN Out(Panic("index out of bounds"), st)
            ELSE IF args[1].kind # "List" THEN Out(Ok(NONE), st)
            ELSE Out(Ok(IntVal(Len(args[1].items))), st)
      [] fn = "StrLenFn" ->
            IF Len(args) < 1 THEN Out(Panic("range end out of bounds"), st)
            ELSE IF args[1].kind # "Str" THEN Out(Ok(NONE), st)
            ELSE Out(Ok(IntVal(Len(args[1].s))), st)

(* register_builtins of dom_cli/main.rs: the registry a program starts     *)
(* with.                                                                   *)
register_builtins ==
    [name \in {"print", "input", "get", "set", "push", "pop", "len"} |->
        CASE name = "print" -> "PrintFn"
          [] name = "input" -> "InputFn"
          [] name = "get" -> "GetFn"
          [] name = "set" -> "SetFn"
          [] name = "push" -> "PushFn"
          [] name = "pop" -> "PopFn"
          [] name = "len" -> "LenFn"]

(* CliModuleHook::use_module with StdModule::use_module: the registry      *)
(* after the call and whether the path was recognised (Some(())).          *)
RECURSIVE RegisterAll(_, _)
RegisterAll(reg, fns) ==
    IF fns = <<>> THEN reg
    ELSE RegisterAll(register(reg, fns[1][1], fns[1][2]), Tail(fns))

use_module(path, reg) ==
    CASE path = "std/io" ->
            [some |-> TRUE,
             reg |-> RegisterAll(reg, <<<<"print", "PrintFn">>,
                                        <<"input", "InputFn">>>>)]
      [] path = "std/list" ->
            [some |-> TRUE,
             reg |-> RegisterAll(reg, <<<<"get", "GetFn">>, <<"set", "SetFn">>,
                                        <<"push", "PushFn">>, <<"pop", "PopFn">>,
                                        <<"len", "LenFn">>>>)]
      [] path = "std/str" ->
            [some |-> TRUE, reg |-> RegisterAll(reg, <<<<"len", "StrLenFn">>>>)]
      [] OTHER -> [some |-> FALSE, reg |-> reg]

(* path.split('/').last() *)
LastSegment(path) ==
    CASE path = "lib/m" -> "m"
      [] path = "std/io" -> "io"
      [] path = "std/list" -> "list"
      [] path = "std/str" -> "str"
      [] OTHER -> path

---------------------------------------------------------------------------
(* The evaluator: interpreter.rs, impl Interpreter.  Every operator takes  *)
(* the environment (a node index) and the evaluation state and returns the *)
(* result with the new state.  `?` is the early return of a result whose   *)
(* tag is not "Ok".                                                        *)

RECURSIVE eval(_, _, _)
RECURSIVE body_from(_, _, _, _, _, _)
RECURSIVE loop_iter(_, _, _, _, _)
RECURSIVE loop_stmts(_, _, _, _, _, _, _)
RECURSIVE eval_items(_, _, _, _, _)
RECURSIVE _eval_call(_, _, _, _, _)
RECURSIVE call_stmts(_, _, _, _, _, _, _)

(* A body that goes on with the next statement after one that failed. *)
body_from_resuming(body, i, env, st, a, lastv) ==
    IF i > Len(body) THEN Out(Ok(lastv), st)
    ELSE LET o == eval(body[i], env, st)
             st1 == Log(o.st, "stmt", a, i, env, env, o.r, body[i])
         IN IF o.r.tag \in {"Ok", "Err"}
            THEN body_from(body, i + 1, env, st1, a, o.r.val)
            ELSE Out(o.r, st1)

(* A body in which a Break, Continue or Return signal ends the body        *)
(* normally, with the value reached so far.                                *)
body_from_swallowing(body, i, env, st, a, lastv) ==
    IF i > Len(body) THEN Out(Ok(lastv), st)
    ELSE LET o == eval(body[i], env, st)
             st1 == Log(o.st, "stmt", a, i, env, env, o.r, body[i])
         IN IF o.r.tag = "Ok"
            THEN body_from(body, i + 1, env, st1, a, o.r.val)
            ELSE IF o.r.tag = "Exc" THEN Out(Ok(lastv), st1)
            ELSE Out(o.r, st1)

(* Interpreter::eval_body: the statements in order, stopping at the first  *)
(* result that is not Ok; a is the activation the statements are logged    *)
(* under.                                                                  *)
body_from(body, i, env, st, a, lastv) ==
    IF i > Len(body) THEN Out(Ok(lastv), st)
    ELSE LET o == eval(body[i], env, st)
             st1 == Log(o.st, "stmt", a, i, env, env, o.r, body[i])
         IN IF o.r.tag = "Ok"
            THEN body_from(body, i + 1, env, st1, a, o.r.val)
            ELSE Out(o.r, st1)

eval_body(body, env, st, a) == body_from(body, 1, env, st, a, NONE)

(* Stmt::Program *)
eval_program(body, env, st) ==
    LET a == st.nact + 1
        st1 == Log([st EXCEPT !.nact = a], "program", a, 0, env, env, Ok(NONE),
                   Program(body))
        o == eval_body(body, env, st1, a)
    IN Out(o.r, Log(o.st, "end", a, 0, env, env, o.r, Nop))

(* Interpreter::eval_cond *)
eval_cond(condition, body, env, st) ==
    LET c0 == eval(condition, env, st)
        c == Out(c0.r, Log(c0.st, "test", 0, 0, env, env, c0.r, condition))
    IN IF c.r.tag # "Ok" THEN c
       ELSE IF c.r.val.kind # "Bool"
       THEN Out(Panic("unreachable: condition is not a Bool"), c.st)
       ELSE IF c.r.val.b
       THEN LET a == c.st.nact + 1
                h1 == with_parent(c.st.h, env)
                cenv == Len(h1)
                st1 == Log([c.st EXCEPT !.h = h1, !.nact = a],
                           "cond", a, 0, cenv, env, Ok(NONE), Nop)
                o == eval_body(body, cenv, st1, a)
            IN Out(o.r, Log(o.st, "end", a, 0, cenv, env, o.r, Nop))
       ELSE Out(Ok(NONE), c.st)

(* Interpreter::eval_func *)
eval_func(ident, params, body, env, st) ==
    LET h1 == with_parent(st.h, env)
        func == FuncVal(ident, params, body, Len(h1))
        d == declare(h1, env, ident, func)
    IN Out(d.r, Log([st EXCEPT !.h = d.h], "declare", 0, 0, env, env, d.r,
                    Func(ident, params, body)))

(* Interpreter::eval_loop.  lastv is `last`: <<>> for None, <<v>> for      *)
(* Some(v); it is declared before the loop and lives across iterations.    *)
loop_iter(body, env, st, a, lastv) ==
    IF st.fuel = 0 THEN Out(Timeout, st)
    ELSE LET h1 == with_parent(st.h, env)
             loop_env == Len(h1)
             st1 == Log([st EXCEPT !.h = h1, !.fuel = @ - 1],
                        "iter", a, 0, loop_env, env, Ok(NONE), Nop)
         IN loop_stmts(body, 1, env, loop_env, st1, a, lastv)

(* A statement loop in which Continue ends the loop as Break does and a    *)
(* Return is absorbed the same way.                                        *)
loop_stmts_absorbing(body, i, env, loop_env, st, a, lastv) ==
    IF i > Len(body) THEN loop_iter(body, env, st, a, lastv)
    ELSE LET o == eval(body[i], loop_env, st)
             st1 == Log(o.st, "stmt", a, i, loop_env, env, o.r, body[i])
         IN CASE o.r.tag = "Ok" ->
                    loop_stmts(body, i + 1, env, loop_env, st1, a, <<o.r.val>>)
              [] o.r.tag = "Exc" ->
                    LET r == Ok(IF lastv = <<>> THEN NONE ELSE lastv[1])
                    IN Out(r, Log(st1, "end", a, 0, loop_env, env, r, Nop))
              [] OTHER ->
                    Out(o.r, Log(st1, "end", a, 0, loop_env, env, o.r, Nop))

(* A statement loop that ends on a Break and hands the Break on to what    *)
(* encloses it.                                                            *)
loop_stmts_reraising(body, i, env, loop_env, st, a, lastv) ==
    IF i > Len(body) THEN loop_iter(body, env, st, a, lastv)
    ELSE LET o == eval(body[i], loop_env, st)
             st1 == Log(o.st, "stmt", a, i, loop_env, env, o.r, body[i])
         IN CASE o.r.tag = "Ok" ->
                    loop_stmts(body, i + 1, env, loop_env, st1, a, <<o.r.val>>)
              [] o.r.tag = "Exc" /\ o.r.err = "Continue" ->
                    loop_iter(body, env, st1, a, lastv)
              [] OTHER ->
                    Out(o.r, Log(st1, "end", a, 0, loop_env, env, o.r, Nop))

loop_stmts(body, i, env, loop_env, st, a, lastv) ==
    IF i > Len(body) THEN loop_iter(body, env, st, a, lastv)
    ELSE LET o == eval(body[i], loop_env, st)
             st1 == Log(o.st, "stmt", a, i, loop_env, env, o.r, body[i])
         IN CASE o.r.tag = "Ok" ->
                    loop_stmts(body, i + 1, env, loop_env, st1, a, <<o.r.val>>)
              [] o.r.tag = "Exc" /\ o.r.err = "Continue" ->
                    loop_iter(body, env, st1, a, lastv)
              [] o.r.tag = "Exc" /\ o.r.err = "Break" ->
                    LET r == Ok(IF lastv = <<>> THEN NONE ELSE lastv[1])
                    IN Out(r, Log(st1, "end", a, 0, loop_env, env, r, Nop))
              [] OTHER ->
                    Out(o.r, Log(st1, "end", a, 0, loop_env, env, o.r, Nop))

eval_loop(body, env, st) ==
    LET a == st.nact + 1
        st1 == Log([st EXCEPT !.nact = a], "loop", a, 0, env, env, Ok(NONE),
                   Loop(body))
    IN loop_iter(body, env, st1, a, <<>>)

(* Interpreter::eval_var *)
eval_var(ident, value, env, st) ==
    LET v == eval(value, env, st)
    IN IF v.r.tag # "Ok" THEN v
       ELSE LET d == declare(v.st.h, env, ident, v.r.val)
            IN Out(d.r, Log([v.st EXCEPT !.h = d.h], "declare", 0, 0, env, env,
                            d.r, Var(ident, value)))

(* Interpreter::eval_assign *)
eval_assign(assignee, value, env, st) ==
    IF assignee.t # "Ident"
    THEN Out(Err("InvalidAssignmentIdentifier"), st)
    ELSE LET v == eval(value, env, st)
         IN IF v.r.tag # "Ok" THEN v
            ELSE LET o == assign(v.st.h, env, assignee.ident, v.r.val)
                 IN Out(o.r, [v.st EXCEPT !.h = o.h])

(* items.into_iter().map(|e| self.eval(e, env)).collect::<Result<Vec>>():  *)
(* left to right, stopping at the first result that is not Ok.  The values *)
(* come back as a List value.                                              *)
eval_items(items, i, env, st, acc) ==
    IF i > Len(items) THEN Out(Ok(ListVal(acc)), st)
    ELSE LET o == eval(items[i], env, st)
         IN IF o.r.tag # "Ok" THEN o
            ELSE eval_items(items, i + 1, env, o.st, Append(acc, o.r.val))

(* Interpreter::eval_list_expr *)
eval_list_expr(items, env, st) == eval_items(items, 1, env, st, <<>>)

(* Interpreter::eval_ident *)
eval_ident(ident, env, st) == Out(lookup(st.h, env, ident), st)

(* Interpreter::lookup_module: the result value is the Mod value. *)
lookup_module(module, env, st) ==
    LET m == eval(module, env, st)
    IN IF m.r.tag # "Ok" THEN m
       ELSE IF m.r.val.kind # "Mod" THEN Out(Err("InvalidModule"), m.st)
       ELSE m

(* Interpreter::eval_mod_expr *)
eval_mod_expr(module, item, env, st) ==
    LET m == lookup_module(module, env, st)
    IN IF m.r.tag # "Ok" THEN m ELSE eval(item, m.r.val.env, m.st)

(* A use that binds the module with the duplicate-name check of declare. *)
eval_use_checked(path, env, st) ==
    LET rid == st.h[env].builtins
        um == use_module(path, st.rg[rid])
    IN IF um.some
       THEN Out(Ok(NONE), [st EXCEPT !.rg[rid] = um.reg])
       ELSE IF path \notin DOMAIN ModuleFiles
       THEN Out(Err("ModuleNotFound"), st)
       ELSE LET h1 == with_builtins(st.h, rid)
                mod_env == Len(h1)
                o == eval(Program(ModuleFiles[path]), mod_env,
                          [st EXCEPT !.h = h1])
                d == declare(o.st.h, env, LastSegment(path), ModVal(mod_env))
            IN IF o.r.tag \in {"Panic", "Timeout"} THEN o
               ELSE IF d.r.tag # "Ok" THEN Out(d.r, o.st)
               ELSE Out(Ok(NONE), [o.st EXCEPT !.h = d.h])

(* A use whose environment holds its registry by value: the registration  *)
(* goes to a copy that only the importing environment refers to.           *)
eval_use_private_registry(path, env, st) ==
    LET rid == st.h[env].builtins
        um == use_module(path, st.rg[rid])
    IN IF um.some
       THEN Out(Ok(NONE), [st EXCEPT !.rg = Append(@, um.reg),
                                     !.h[env].builtins = Len(st.rg) + 1])
       ELSE IF path \notin DOMAIN ModuleFiles
       THEN Out(Err("ModuleNotFound"), st)
       ELSE LET h1 == with_builtins(st.h, rid)
                mod_env == Len(h1)
                o == eval(Program(ModuleFiles[path]), mod_env,
                          [st EXCEPT !.h = h1])
            IN IF o.r.tag \in {"Panic", "Timeout"} THEN o
               ELSE Out(Ok(NONE),
                        [o.st EXCEPT !.h = declare_unchecked(
                            o.st.h, env, LastSegment(path), ModVal(mod_env))])

(* Interpreter::eval_use with CliModuleHook and CliUseHook (hooks.rs). The *)
(* result of evaluating the module's program is dropped (`let _ =`); a     *)
(* panic inside it still unwinds.                                          *)
eval_use(path, env, st) ==
    LET rid == st.h[env].builtins
        um == use_module(path, st.rg[rid])
    IN IF um.some
       THEN Out(Ok(NONE), [st EXCEPT !.rg[rid] = um.reg])
       ELSE IF path \notin DOMAIN ModuleFiles
       THEN Out(Err("ModuleNotFound"), st)
       ELSE LET h1 == with_builtins(st.h, rid)
                mod_env == Len(h1)
                o == eval(Program(ModuleFiles[path]), mod_env,
                          [st EXCEPT !.h = h1])
            IN IF o.r.tag \in {"Panic", "Timeout"} THEN o
               ELSE Out(Ok(NONE),
                        [o.st EXCEPT !.h = declare_unchecked(
                            o.st.h, env, LastSegment(path), ModVal(mod_env))])

(* The parameter loop of _eval_call: declare each parameter in the         *)
(* closure's environment, stopping at the first failure.                   *)
RECURSIVE bind_params(_, _, _, _, _, _, _)
bind_params(params, args, i, fenv, encl, st, a) ==
    IF i > Len(params) THEN Out(Ok(NONE), st)
    ELSE LET d == declare(st.h, fenv, params[i], args[i])
             st1 == Log([st EXCEPT !.h = d.h], "bind", a, i, fenv, encl, d.r, Nop)
         IN IF d.r.tag # "Ok" THEN Out(d.r, st1)
            ELSE bind_params(params, args, i + 1, fenv, encl, st1, a)

(* A body loop in which a Return ends the call with the value of the last  *)
(* completed statement, its expression ignored.                            *)
call_stmts_dropping_return(body, i, fenv, encl, st, a, lastv) ==
    IF i > Len(body)
    THEN LET r == Ok(IF lastv = <<>> THEN NONE ELSE lastv[1])
         IN Out(r, Log(st, "end", a, 0, fenv, encl, r, Nop))
    ELSE LET o == eval(body[i], fenv, st)
             st1 == Log(o.st, "stmt", a, i, fenv, encl, o.r, body[i])
         IN CASE o.r.tag = "Ok" ->
                    call_stmts(body, i + 1, fenv, encl, st1, a, <<o.r.val>>)
              [] o.r.tag = "Exc" /\ o.r.err = "Return" ->
                    LET r == Ok(IF lastv = <<>> THEN NONE ELSE lastv[1])
                    IN Out(r, Log(st1, "end", a, 0, fenv, encl, r, Nop))
              [] OTHER ->
                    Out(o.r, Log(st1, "end", a, 0, fenv, encl, o.r, Nop))

(* A body loop that takes a Break or Continue the way it takes a Return    *)
(* without a value: the call ends and yields None.                         *)
call_stmts_absorbing(body, i, fenv, encl, st, a, lastv) ==
    IF i > Len(body)
    THEN LET r == Ok(IF lastv = <<>> THEN NONE ELSE lastv[1])
         IN Out(r, Log(st, "end", a, 0, fenv, encl, r, Nop))
    ELSE LET o == eval(body[i], fenv, st)
             st1 == Log(o.st, "stmt", a, i, fenv, encl, o.r, body[i])
         IN CASE o.r.tag = "Ok" ->
                    call_stmts(body, i + 1, fenv, encl, st1, a, <<o.r.val>>)
              [] o.r.tag = "Exc" /\ o.r.err = "Return" /\ o.r.ret # <<>> ->
                    LET v == eval(o.r.ret[1], fenv, st1)
                    IN Out(v.r, Log(v.st, "end", a, 0, fenv, encl, v.r, Nop))
              [] o.r.tag = "Exc" ->
                    Out(Ok(NONE), Log(st1, "end", a, 0, fenv, encl, Ok(NONE), Nop))
              [] OTHER ->
                    Out(o.r, Log(st1, "end", a, 0, fenv, encl, o.r, Nop))

(* The body loop of _eval_call. *)
call_stmts(body, i, fenv, encl, st, a, lastv) ==
    IF i > Len(body)
    THEN LET r == Ok(IF lastv = <<>> THEN NONE ELSE lastv[1])
         IN Out(r, Log(st, "end", a, 0, fenv, encl, r, Nop))
    ELSE LET o == eval(body[i], fenv, st)
             st1 == Log(o.st, "stmt", a, i, fenv, encl, o.r, body[i])
         IN CASE o.r.tag = "Ok" ->
                    call_stmts(body, i + 1, fenv, encl, st1, a, <<o.r.val>>)
              [] o.r.tag = "Exc" /\ o.r.err = "Return" ->
                    IF o.r.ret = <<>>
                    THEN Out(Ok(NONE), Log(st1, "end", a, 0, fenv, encl, Ok(NONE), Nop))
                    ELSE LET v == eval(o.r.ret[1], fenv, st1)
                         IN Out(v.r, Log(v.st, "end", a, 0, fenv, encl, v.r, Nop))
              [] OTHER ->
                    Out(o.r, Log(st1, "end", a, 0, fenv, encl, o.r, Nop))

(* A call that answers CallerNotDefined whenever the caller does not yield *)
(* a Func, also when evaluating the caller failed.                         *)
call_func_undefined(caller, args, env, st) ==
    LET c == eval(caller, env, st)
    IN IF c.r.tag = "Err" \/ (c.r.tag = "Ok" /\ c.r.val.kind # "Func")
       THEN Out(Err("CallerNotDefined"), c.st)
       ELSE IF c.r.tag # "Ok" THEN c
       ELSE IF Len(args) # Len(c.r.val.params)
       THEN Out(Err("MismatchedArgs"), c.st)
       ELSE IF c.st.fuel = 0 THEN Out(Timeout, c.st)
       ELSE LET f == c.r.val
                a == c.st.nact + 1
                st1 == Log([c.st EXCEPT !.nact = a, !.fuel = @ - 1],
                           "call", a, 0, f.env, env, Ok(ListVal(args)),
                           Func(f.fname, f.params, f.body))
                b == bind_params(f.params, args, 1, f.env, env, st1, a)
            IN IF b.r.tag # "Ok"
               THEN Out(b.r, Log(b.st, "end", a, 0, f.env, env, b.r, Nop))
               ELSE call_stmts(f.body, 1, f.env, env, b.st, a, <<>>)

(* A call that refuses only too few arguments and binds the parameters it  *)
(* has arguments for otherwise.                                            *)
call_func_extra_args(caller, args, env, st) ==
    LET c == eval(caller, env, st)
    IN IF c.r.tag # "Ok" THEN c
       ELSE IF c.r.val.kind # "Func" THEN Out(Err("CallerNotDefined"), c.st)
       ELSE IF Len(args) < Len(c.r.val.params)
       THEN Out(Err("MismatchedArgs"), c.st)
       ELSE IF c.st.fuel = 0 THEN Out(Timeout, c.st)
       ELSE LET f == c.r.val
                a == c.st.nact + 1
                st1 == Log([c.st EXCEPT !.nact = a, !.fuel = @ - 1],
                           "call", a, 0, f.env, env, Ok(ListVal(args)),
                           Func(f.fname, f.params, f.body))
                b == bind_params(f.params, args, 1, f.env, env, st1, a)
            IN IF b.r.tag # "Ok"
               THEN Out(b.r, Log(b.st, "end", a, 0, f.env, env, b.r, Nop))
               ELSE call_stmts(f.body, 1, f.env, env, b.st, a, <<>>)

(* The user-function part of _eval_call (lines 315-353): the parameters    *)
(* are declared in the Func's own env, the node eval_func created.         *)
call_func(caller, args, env, st) ==
    LET c == eval(caller, env, st)
    IN IF c.r.tag # "Ok" THEN c
       ELSE IF c.r.val.kind # "Func" THEN Out(Err("CallerNotDefined"), c.st)
       ELSE IF Len(args) # Len(c.r.val.params)
       THEN Out(Err("MismatchedArgs"), c.st)
       ELSE IF c.st.fuel = 0 THEN Out(Timeout, c.st)
       ELSE LET f == c.r.val
                a == c.st.nact + 1
                st1 == Log([c.st EXCEPT !.nact = a, !.fuel = @ - 1],
                           "call", a, 0, f.env, env, Ok(ListVal(args)),
                           Func(f.fname, f.params, f.body))
                b == bind_params(f.params, args, 1, f.env, env, st1, a)
            IN IF b.r.tag # "Ok"
               THEN Out(b.r, Log(b.st, "end", a, 0, f.env, env, b.r, Nop))
               ELSE call_stmts(f.body, 1, f.env, env, b.st, a, <<>>)

(* A call that prefers a Func bound to the caller's name at the call site  *)
(* to a builtin of that name.                                              *)
_eval_call_user_first(caller, args, env, mod_env, st) ==
    IF caller.t = "Mod"
    THEN LET m == lookup_module(caller.module, env, st)
         IN IF m.r.tag # "Ok" THEN m
            ELSE _eval_call(caller.item, args, env, m.r.val.env, m.st)
    ELSE IF caller.t = "Ident"
            /\ lookup_builtin(st.h, st.rg, mod_env, caller.ident) # ""
            /\ ~(lookup(st.h, env, caller.ident).tag = "Ok"
                 /\ lookup(st.h, env, caller.ident).val.kind = "Func")
    THEN LET fn == lookup_builtin(st.h, st.rg, mod_env, caller.ident)
             st1 == Log(st, "builtin", 0, 0, env, env, Ok(ListVal(args)),
                        [t |-> "Builtin", fn |-> fn])
             o == run(fn, args, env, st1)
         IN Out(o.r, Log(o.st, "builtin_end", 0, 0, env, env, o.r,
                         [t |-> "Builtin", fn |-> fn]))
    ELSE call_func(caller, args, env, st)

(* Interpreter::_eval_call *)
_eval_call(caller, args, env, mod_env, st) ==
    IF caller.t = "Mod"
    THEN LET m == lookup_module(caller.module, env, st)
         IN IF m.r.tag # "Ok" THEN m
            ELSE _eval_call(caller.item, args, env, m.r.val.env, m.st)
    ELSE IF caller.t = "Ident"
            /\ lookup_builtin(st.h, st.rg, mod_env, caller.ident) # ""
    THEN LET fn == lookup_builtin(st.h, st.rg, mod_env, caller.ident)
             st1 == Log(st, "builtin", 0, 0, env, env, Ok(ListVal(args)),
                        [t |-> "Builtin", fn |-> fn])
             o == run(fn, args, env, st1)
         IN Out(o.r, Log(o.st, "builtin_end", 0, 0, env, env, o.r,
                         [t |-> "Builtin", fn |-> fn]))
    ELSE call_func(caller, args, env, st)

(* A call that looks the module of a module access up before it evaluates *)
(* the arguments.                                                          *)
eval_call_resolve_first(caller, args, env, st) ==
    IF caller.t = "Mod" /\ lookup_module(caller.module, env, st).r.tag # "Ok"
    THEN lookup_module(caller.module, env, st)
    ELSE LET as == eval_items(args, 1, env, st, <<>>)
         IN IF as.r.tag # "Ok" THEN as
            ELSE _eval_call(caller, as.r.val.items, env, env,
                            Log(as.st, "callsite", 0, 0, env, env, as.r,
                                Call(caller, args)))

(* Interpreter::eval_call *)
eval_call(caller, args, env, st) ==
    LET as == eval_items(args, 1, env, st, <<>>)
    IN IF as.r.tag # "Ok" THEN as
       ELSE _eval_call(caller, as.r.val.items, env, env,
                       Log(as.st, "callsite", 0, 0, env, env, as.r,
                           Call(caller, args)))

(* i32 arithmetic: an overflowing +, -, * or negation panics in a build    *)
(* with overflow checks and wraps in one without; a division by zero or of *)
(* i32::MIN by -1 panics in every build; `/` truncates toward zero.  The   *)
(* wrapped results are computed on 16-bit halves so that no intermediate   *)
(* value leaves the 32-bit range.                                          *)
(* The low 16 bits of x * y for x, y in 0..65535. *)
MulMod16(x, y) ==
    (((x * (y \div 256)) % 65536) * 256 + x * (y % 256)) % 65536

Lo16(v) == v % 65536
Hi16(v) == ((v - Lo16(v)) \div 65536) % 65536

(* The i32 whose two's complement halves are hi and lo. *)
FromHalves(hi, lo) ==
    IF hi >= 32768 THEN (hi - 65536) * 65536 + lo ELSE hi * 65536 + lo

(* wrapping_add, wrapping_sub, wrapping_mul, wrapping_neg of i32. *)
WrapAdd(a, b) ==
    LET lo == Lo16(a) + Lo16(b)
        hi == (Hi16(a) + Hi16(b) + (lo \div 65536)) % 65536
    IN FromHalves(hi, lo % 65536)

WrapNeg(a) == IF a = I32Min THEN I32Min ELSE -a

WrapSub(a, b) == WrapAdd(a, WrapAdd(-1 - b, 1))

WrapMul(a, b) ==
    LET p == Lo16(a) * (Lo16(b) \div 256)
        q == Lo16(a) * (Lo16(b) % 256)
        lowsum == (p % 256) * 256 + (q % 65536)
        mid == MulMod16(Hi16(a), Lo16(b)) + MulMod16(Lo16(a), Hi16(b))
        hi == ((p \div 256) + (q \div 65536) + (lowsum \div 65536) + mid) % 65536
    IN FromHalves(hi, lowsum % 65536)

(* Whether the exact result leaves the i32 range. *)
AddOverflows(a, b) ==
    \/ b > 0 /\ a > I32Max - b
    \/ b < 0 /\ a < I32Min - b

SubOverflows(a, b) ==
    \/ b < 0 /\ a > I32Max + b
    \/ b > 0 /\ a < I32Min + b

(* 2^31 \div d, rounded up, for d >= 1 *)
CeilDivMin(d) == (I32Max \div d) + (IF I32Max % d = d - 1 THEN 1 ELSE 0)

MulOverflows(a, b) ==
    CASE a = 0 \/ b = 0 -> FALSE
      [] a = -1 -> b = I32Min
      [] b = -1 -> a = I32Min
      [] a = I32Min \/ b = I32Min -> ~(a = 1 \/ b = 1)
      [] a > 0 /\ b > 0 -> a > I32Max \div b
      [] a < 0 /\ b < 0 -> -a > I32Max \div (-b)
      [] a > 0 /\ b < 0 -> -b > CeilDivMin(a)
      [] OTHER -> -a > CeilDivMin(b)

(* The result of an i32 operation: the exact value, or on overflow a panic *)
(* in a build with overflow checks and the wrapped value otherwise.        *)
Checked(overflows, exact, wrapped, st) ==
    IF ~overflows THEN Out(Ok(IntVal(exact)), st)
    ELSE IF st.build = "debug"
    THEN Out(Panic("arithmetic overflow"), st)
    ELSE Out(Ok(IntVal(wrapped)), st)

TruncDiv(a, b) ==
    LET q == (IF a < 0 THEN -a ELSE a) \div (IF b < 0 THEN -b ELSE b)
    IN IF (a < 0) = (b < 0) THEN q ELSE -q

RECURSIVE Repeat(_, _)
Repeat(str, n) == IF n = 0 THEN <<>> ELSE str \o Repeat(str, n - 1)

(* A pipe that passes its left side as the last argument. *)
eval_pipe_expr_last(left, right, env, st) ==
    IF right.t = "Call"
    THEN eval_call(right.caller, right.args \o <<left>>, env, st)
    ELSE Out(Err("InvalidPipeCaller"), st)

(* Interpreter::eval_pipe_expr *)
eval_pipe_expr(left, right, env, st) ==
    IF right.t = "Call"
    THEN eval_call(right.caller, <<left>> \o right.args, env, st)
    ELSE Out(Err("InvalidPipeCaller"), st)

(* A logic expression that leaves the right operand unevaluated when the   *)
(* left one decides the result.                                            *)
eval_logic_expr_short_circuit(left, right, op, env, st) ==
    LET l == eval(left, env, st)
    IN IF l.r.tag # "Ok" THEN l
       ELSE IF l.r.val.kind = "Bool" /\ l.r.val.b = (op = "Or") THEN l
       ELSE LET r == eval(right, env, l.st)
            IN IF r.r.tag # "Ok" THEN r
               ELSE IF l.r.val.kind # "Bool" \/ r.r.val.kind # "Bool"
               THEN Out(Err("LogicalExpressionUnsupported"), r.st)
               ELSE Out(Ok(BoolVal(IF op = "And" THEN l.r.val.b /\ r.r.val.b
                                   ELSE l.r.val.b \/ r.r.val.b)), r.st)

(* Interpreter::eval_logic_expr *)
eval_logic_expr(left, right, op, env, st) ==
    LET l == eval(left, env, st)
    IN IF l.r.tag # "Ok" THEN l
       ELSE LET r == eval(right, env, l.st)
            IN IF r.r.tag # "Ok" THEN r
               ELSE IF l.r.val.kind # "Bool" \/ r.r.val.kind # "Bool"
               THEN Out(Err("LogicalExpressionUnsupported"), r.st)
               ELSE Out(Ok(BoolVal(IF op = "And" THEN l.r.val.b /\ r.r.val.b
                                   ELSE l.r.val.b \/ r.r.val.b)), r.st)

(* Interpreter::eval_rel_expr *)
eval_rel_expr(left, right, op, env, st) ==
    LET l == eval(left, env, st)
    IN IF l.r.tag # "Ok" THEN l
       ELSE LET r == eval(right, env, l.st)
                a == l.r.val
                b == r.r.val
                err == Out(Err("RelationalExpressionUnsupported"), r.st)
            IN IF r.r.tag # "Ok" THEN r
               ELSE CASE a.kind = "Bool" /\ b.kind = "Bool" ->
                            IF op = "Eq" THEN Out(Ok(BoolVal(a.b = b.b)), r.st)
                            ELSE IF op = "NotEq" THEN Out(Ok(BoolVal(a.b # b.b)), r.st)
                            ELSE err
                      [] a.kind = "Int" /\ b.kind = "Int" ->
                            Out(Ok(BoolVal(
                                CASE op = "Eq" -> a.n = b.n
                                  [] op = "NotEq" -> a.n # b.n
                                  [] op = "Greater" -> a.n > b.n
                                  [] op = "GreaterEq" -> a.n >= b.n
                                  [] op = "Less" -> a.n < b.n
                                  [] op = "LessEq" -> a.n <= b.n)), r.st)
                      [] a.kind = "Str" /\ b.kind = "Str" ->
                            IF op = "Eq" THEN Out(Ok(BoolVal(a.s = b.s)), r.st)
                            ELSE IF op = "NotEq" THEN Out(Ok(BoolVal(a.s # b.s)), r.st)
                            ELSE err
                      [] OTHER -> err

(* Interpreter::eval_unary_expr: Pos returns the operand's value as it is, *)
(* tag included.                                                           *)
eval_unary_expr(expr, op, env, st) ==
    LET v == eval(expr, env, st)
        err == Out(Err("UnaryExpressionUnsupported"), v.st)
    IN IF v.r.tag # "Ok" THEN v
       ELSE CASE v.r.val.kind = "Int" ->
                    IF op = "Pos" THEN v
                    ELSE IF op = "Neg"
                    THEN Checked(v.r.val.n = I32Min, WrapNeg(v.r.val.n),
                                 I32Min, v.st)
                    ELSE err
              [] v.r.val.kind = "Bool" ->
                    IF op = "Not" THEN Out(Ok(BoolVal(~v.r.val.b)), v.st) ELSE err
              [] OTHER -> err

(* Interpreter::eval_binary_expr *)
eval_binary_expr(left, right, op, env, st) ==
    LET l == eval(left, env, st)
    IN IF l.r.tag # "Ok" THEN l
       ELSE LET r == eval(right, env, l.st)
                a == l.r.val
                b == r.r.val
                err == Out(Err("BinaryExpressionUnsupported"), r.st)
            IN IF r.r.tag # "Ok" THEN r
               ELSE CASE a.kind = "Int" /\ b.kind = "Int" ->
                           (CASE op = "Add" ->
                                    Checked(AddOverflows(a.n, b.n),
                                            WrapAdd(a.n, b.n),
                                            WrapAdd(a.n, b.n), r.st)
                              [] op = "Sub" ->
                                    Checked(SubOverflows(a.n, b.n),
                                            WrapSub(a.n, b.n),
                                            WrapSub(a.n, b.n), r.st)
                              [] op = "Mul" ->
                                    Checked(MulOverflows(a.n, b.n),
                                            WrapMul(a.n, b.n),
                                            WrapMul(a.n, b.n), r.st)
                              [] op = "Div" ->
                                    IF b.n = 0
                                    THEN Out(Panic("attempt to divide by zero"), r.st)
                                    ELSE IF a.n = I32Min /\ b.n = -1
                                    THEN Out(Panic("attempt to divide with overflow"), r.st)
                                    ELSE Out(Ok(IntVal(TruncDiv(a.n, b.n))), r.st))
                      [] a.kind = "Str" /\ b.kind = "Str" ->
                            IF op = "Add" THEN Out(Ok(StrVal(a.s \o b.s)), r.st)
                            ELSE err
                      [] a.kind = "Str" /\ b.kind = "Int" ->
                            IF op = "Mul" /\ b.n >= 0
                            THEN Out(Ok(StrVal(Repeat(a.s, b.n))), r.st)
                            ELSE err
                      [] a.kind = "Int" /\ b.kind = "Str" ->
                            IF op = "Mul" /\ a.n >= 0
                            THEN Out(Ok(StrVal(Repeat(b.s, a.n))), r.st)
                            ELSE err
                      [] OTHER -> err

(* Interpreter::eval *)
eval(stmt, env, st) ==
    CASE stmt.t = "Program" -> eval_program(stmt.body, env, st)
      [] stmt.t = "Cond" -> eval_cond(stmt.condition, stmt.body, env, st)
      [] stmt.t = "Func" ->
            eval_func(stmt.ident, stmt.params, stmt.body, env, st)
      [] stmt.t = "Loop" -> eval_loop(stmt.body, env, st)
      [] stmt.t = "Var" -> eval_var(stmt.ident, stmt.value, env, st)
      [] stmt.t = "Use" -> eval_use(stmt.path, env, st)
      [] stmt.t = "Assignment" ->
            eval_assign(stmt.assignee, stmt.value, env, st)
      [] stmt.t = "Call" -> eval_call(stmt.caller, stmt.args, env, st)
      [] stmt.t = "List" -> eval_list_expr(stmt.items, env, st)
      [] stmt.t = "Ident" -> eval_ident(stmt.ident, env, st)
      [] stmt.t = "Bool" -> Out(Ok(BoolVal(stmt.b)), st)
      [] stmt.t = "Int" -> Out(Ok(IntVal(stmt.n)), st)
      [] stmt.t = "Str" -> Out(Ok(StrVal(stmt.s)), st)
      [] stmt.t = "Return" -> Out(Exc("Return", stmt.value), st)
      [] stmt.t = "Continue" -> Out(Exc("Continue", <<>>), st)
      [] stmt.t = "Break" -> Out(Exc("Break", <<>>), st)
      [] stmt.t = "Mod" -> eval_mod_expr(stmt.module, stmt.item, env, st)
      [] stmt.t = "Pipe" -> eval_pipe_expr(stmt.left, stmt.right, env, st)
      [] stmt.t = "LogicOp" ->
            eval_logic_expr(stmt.left, stmt.right, stmt.op, env, st)
      [] stmt.t = "RelOp" ->
            eval_rel_expr(stmt.left, stmt.right, stmt.op, env, st)
      [] stmt.t = "UnaryOp" -> eval_unary_expr(stmt.expr, stmt.op, env, st)
      [] stmt.t = "BinaryOp" ->
            eval_binary_expr(stmt.left, stmt.right, stmt.op, env, st)

---------------------------------------------------------------------------
(* Spec: the interactive mode of dom_cli/main.rs.  The host creates the    *)
(* root environment, registers the builtins and then evaluates one parsed  *)
(* program per prompt in that environment; it prints an Ok result and      *)
(* leaves the loop at the first Err.                                       *)

(* impl Display for Val: formatting a Mod value unwraps its tag; a list    *)
(* formats its items.                                                      *)
RECURSIVE DisplayPanics(_)
DisplayPanics(value) ==
    CASE value.kind = "Mod" -> value.ident = <<>>
      [] value.kind = "List" ->
            \E k \in 1..Len(value.items) : DisplayPanics(value.items[k])
      [] OTHER -> FALSE

(* The programs typed at the prompt. *)
CallF(f, args) == Call(Ident(f), args)

Programs == <<
    (* 1 *) <<Var("x", List(<<IntExpr(1)>>)), Var("y", List(<<IntExpr(2)>>)),
              Var("c", Bool(FALSE))>>,
    (* 2 *) <<Var("z", Ident("x"))>>,
    (* 3 *) <<Assignment(Ident("x"), Ident("y"))>>,
    (* 4 *) <<CallF("push", <<Ident("x"), IntExpr(3)>>)>>,
    (* 5 *) <<CallF("pop", <<Ident("x"), IntExpr(0)>>)>>,
    (* 6 *) <<CallF("set", <<Ident("y"), IntExpr(0), IntExpr(4)>>)>>,
    (* 7 *) <<Func("f", <<"a">>, <<Ident("a")>>),
              Func("r", <<"n">>,
                   <<Cond(Ident("n"), <<CallF("r", <<Bool(FALSE)>>)>>),
                     Ident("n")>>),
              Func("h", <<>>, <<Loop(<<Return(<<IntExpr(1)>>)>>), IntExpr(2)>>)>>,
    (* 8 *) <<CallF("f", <<IntExpr(1)>>)>>,
    (* 9 *) <<CallF("f", <<CallF("f", <<IntExpr(1)>>)>>)>>,
    (* 10 *) <<CallF("r", <<Bool(TRUE)>>)>>,
    (* 11 *) <<CallF("h", <<>>)>>,
    (* 12 *) <<Loop(<<Cond(Ident("c"), <<Break>>), Var("t", IntExpr(1)),
                     Assignment(Ident("c"), Bool(TRUE))>>)>>,
    (* 13 *) <<Loop(<<Cond(Ident("c"), <<Break>>),
                     Assignment(Ident("c"), Bool(TRUE)), Continue,
                     Assignment(Ident("x"), List(<<>>))>>)>>,
    (* 14 *) <<Cond(Bool(TRUE), <<Var("t", IntExpr(2)),
                                 Assignment(Ident("c"), Bool(TRUE))>>)>>,
    (* 15 *) <<Loop(<<Var("t", IntExpr(1)), Break>>)>>,
    (* 16 *) <<Loop(<<Ident("zz")>>)>>,
    (* 17 *) <<Func("k", <<>>,
                    <<Cond(Ident("c"), <<Assignment(Ident("c"), Bool(FALSE)),
                                         CallF("k", <<>>)>>),
                      Var("w", IntExpr(1))>>),
               Assignment(Ident("c"), Bool(TRUE))>>,
    (* 18 *) <<CallF("k", <<>>)>>,
    (* 19 *) <<Cond(IntExpr(1), <<Assignment(Ident("c"), Bool(TRUE))>>)>>,
    (* 20 *) <<Cond(Ident("x"), <<Assignment(Ident("c"), Bool(TRUE))>>)>>,
    (* 21 *) <<Cond(CallF("print", <<>>), <<Var("t", IntExpr(1))>>)>>,
    (* 22 *) <<BinaryOp(IntExpr(7), IntExpr(2), "Div"),
               BinaryOp(UnaryOp(IntExpr(7), "Neg"), IntExpr(2), "Div"),
               BinaryOp(IntExpr(7), UnaryOp(IntExpr(2), "Neg"), "Div")>>,
    (* 23 *) <<BinaryOp(IntExpr(5), IntExpr(0), "Div")>>,
    (* 24 *) <<Var("u", IntExpr(1)), Break, Var("u2", IntExpr(2))>>,
    (* 25 *) <<Var("u", IntExpr(1)), Cond(Bool(TRUE), <<Continue>>),
               Var("u2", IntExpr(2))>>,
    (* 26 *) <<Var("u", IntExpr(1)), Loop(<<Return(<<IntExpr(1)>>)>>),
               Var("u2", IntExpr(2))>>,
    (* 27 *) <<Var("u", IntExpr(1)), Func("bk", <<>>, <<Break>>),
               CallF("bk", <<>>), Var("u2", IntExpr(2))>>,
    (* 28 *) <<Func("g2", <<"p">>,
                    <<Cond(Bool(TRUE), <<Var("p", IntExpr(2)),
                                         Return(<<Ident("p")>>)>>),
                      IntExpr(9)>>),
               CallF("g2", <<IntExpr(1)>>)>>,
    (* 29 *) <<Func("e0", <<>>, <<>>),
               Func("rn", <<>>, <<Return(<<>>), IntExpr(3)>>),
               CallF("e0", <<>>), CallF("rn", <<>>)>>,
    (* 30 *) <<Use("lib/m")>>,
    (* 31 *) <<Call(Mod(Ident("m"), Ident("g")), <<IntExpr(3)>>)>>,
    (* 32 *) <<Func("g", <<"q">>, <<IntExpr(0)>>)>>,
    (* 33 *) <<Func("len", <<"l">>, <<IntExpr(0)>>),
               CallF("len", <<List(<<IntExpr(1), IntExpr(2)>>)>>),
               CallF("len", <<IntExpr(1)>>)>>,
    (* 34 *) <<Use("std/str"), CallF("len", <<Str(<<"a", "b">>)>>)>>,
    (* 35 *) <<Func("p1", <<"a">>, <<Var("side", IntExpr(1))>>),
               Var("x2", List(<<>>)),
               CallF("p1", <<CallF("push", <<Ident("x2"), IntExpr(3)>>),
                             IntExpr(1)>>)>>,
    (* 36 *) <<Func("p1", <<"a">>, <<Var("side", IntExpr(1))>>),
               CallF("p1", <<>>)>>,
    (* 37 *) <<CallF("nope", <<IntExpr(1)>>)>>,
    (* 38 *) <<Var("n", IntExpr(1)), CallF("n", <<>>)>>,
    (* 39 *) <<Call(List(<<>>), <<IntExpr(1)>>)>>,
    (* 40 *) <<Pipe(Ident("x"), CallF("push", <<IntExpr(3)>>))>>,
    (* 41 *) <<Pipe(CallF("push", <<Ident("x"), IntExpr(5)>>),
                    CallF("f", <<>>)),
               Pipe(Ident("zz"), CallF("push", <<IntExpr(3)>>))>>,
    (* 42 *) <<Pipe(CallF("push", <<Ident("x"), IntExpr(3)>>), Ident("y"))>>,
    (* 43 *) <<Var("d", Bool(FALSE)),
               LogicOp(Bool(FALSE), Assignment(Ident("d"), Bool(TRUE)), "And"),
               LogicOp(Bool(TRUE), Assignment(Ident("d"), Bool(FALSE)), "Or")>>,
    (* 44 *) <<Var("l", List(<<>>)),
               LogicOp(Bool(TRUE),
                       CallF("push", <<Ident("l"), IntExpr(1)>>), "Or")>>,
    (* 45 *) <<>>,
    (* 46 *) <<Var("e1", IntExpr(1)), Ident("zz"), Var("e2", IntExpr(2))>>,
    (* 47 *) <<Use("lib/none")>>,
    (* 48 *) <<Use("std/list"),
               Var("xs", List(<<IntExpr(1), IntExpr(2), IntExpr(3)>>)),
               CallF("get", <<Ident("xs"), IntExpr(0)>>),
               CallF("get", <<Ident("xs"), IntExpr(2)>>),
               CallF("get", <<Ident("xs"), UnaryOp(IntExpr(3), "Neg")>>),
               CallF("get", <<Ident("xs"), UnaryOp(IntExpr(1), "Neg")>>)>>,
    (* 49 *) <<Use("std/list"), CallF("get", <<List(<<>>), IntExpr(0)>>)>>,
    (* 50 *) <<Use("std/list"),
               Var("xs", List(<<IntExpr(1), IntExpr(2), IntExpr(3)>>)),
               CallF("get", <<Ident("xs"), IntExpr(3)>>),
               CallF("get", <<Ident("xs"), UnaryOp(IntExpr(4), "Neg")>>),
               CallF("pop", <<Ident("xs"), UnaryOp(IntExpr(4), "Neg")>>)>>,
    (* 51 *) <<Use("std/list"),
               CallF("get", <<List(<<IntExpr(1)>>), IntExpr(2147483647)>>)>>,
    (* 52 *) <<Cond(Bool(TRUE), <<Use("std/str")>>),
               CallF("len", <<Str("ab")>>)>>,
    (* 53 *) <<Var("xl", List(<<>>)),
               Call(Mod(Ident("xl"), Ident("g")),
                    <<CallF("push", <<Ident("xl"), IntExpr(9)>>),
                      CallF("get", <<Ident("xl"), IntExpr(0)>>)>>)>>,
    (* 54 *) <<Var("xa", List(<<>>)),
               Call(Mod(Ident("xa"), Ident("g")),
                    <<CallF("push", <<Ident("xa"), IntExpr(1)>>), Ident("zz"),
                      CallF("push", <<Ident("xa"), IntExpr(2)>>)>>)>>,
    (* 55 *) <<Var("d", Bool(FALSE)),
               Loop(<<Loop(<<Cond(Ident("d"), <<Break>>),
                             Assignment(Ident("d"), Bool(TRUE)),
                             Continue>>),
                      Var("t", IntExpr(1)),
                      Break>>)>>,
    (* 56 *) <<Func("inner", <<>>, <<Return(<<IntExpr(1)>>), IntExpr(5)>>),
               Func("outer", <<>>, <<CallF("inner", <<>>), IntExpr(7)>>),
               CallF("outer", <<>>)>>,
    (* 57 *) <<Func("bk2", <<>>, <<Break, IntExpr(1)>>),
               Loop(<<CallF("bk2", <<>>), Var("never", IntExpr(1))>>)>>,
    (* 58 *) <<Func("ct", <<>>, <<Continue>>),
               Var("c2", Bool(FALSE)),
               Loop(<<Cond(Ident("c2"), <<Break>>),
                      Assignment(Ident("c2"), Bool(TRUE)),
                      CallF("ct", <<>>),
                      Var("never", IntExpr(1))>>)>>
>>

InitRepl ==
    /\ envs = <<NewEnv(0, 1)>>          \* Env::new()
    /\ regs = <<register_builtins>>     \* register_builtins(&env)
    /\ last = NoOp
    /\ trace = <<>>
    /\ status = "running"
    /\ steps = 0
    /\ build \in {"debug", "release"}
    /\ threads = NoThreads

(* One turn of the prompt loop: result(&source, &env) and the match on it. *)
Repl(body) ==
    /\ status = "running"
    /\ steps < MaxSteps
    /\ LET st0 == [h |-> envs, rg |-> regs, tr |-> <<>>, fuel |-> MaxIter,
                   nact |-> 0, build |-> build]
           o == eval(Program(body), 1, st0)
       IN /\ o.r.tag # "Timeout"
          /\ envs' = o.st.h
          /\ regs' = o.st.rg
          /\ trace' = o.st.tr
          /\ last' = [op |-> "eval", node |-> 1, name |-> "", arg |-> NONE,
                      res |-> o.r, pre |-> envs, rg |-> regs, prog |-> body]
          /\ status' = CASE o.r.tag = "Panic" -> "aborted"
                         [] o.r.tag = "Ok" ->
                                IF DisplayPanics(o.r.val) THEN "aborted"
                                ELSE "running"
                         [] OTHER -> "exited"
    /\ steps' = steps + 1
    /\ UNCHANGED <<build, threads>>

Next == \E k \in DOMAIN Programs : Repl(Programs[k])

Spec == InitRepl /\ [][Next]_vars

---------------------------------------------------------------------------
(* SpecLock: threads of a host (or of several interpreters) running Env    *)
(* operations on one shared tree.  Mutex::lock is one step, enabled when   *)
(* no thread owns the Mutex: std's Mutex is not reentrant, so a thread     *)
(* that owns it waits for itself forever.  What runs between two           *)
(* acquisitions is one step; guards are released by the step in which      *)
(* their scope ends.                                                       *)

LockNames == {"foo", "bar"}

LockOps == {"declare", "assign", "lookup", "lookup_builtin", "with_parent",
            "register_builtin", "use", "run"}

(* The names an operation is started with. *)
NamesOf(op) ==
    CASE op \in {"declare", "assign", "lookup", "run"} -> LockNames
      [] op = "lookup_builtin" -> {"len"}
      [] OTHER -> {""}

Holds(t, l) == \E i \in DOMAIN threads[t].held : threads[t].held[i] = l
Free(l) == \A t \in Threads : ~Holds(t, l)

(* A lookup_builtin that locks the registry before the node. *)
lookup_builtin_locks_registry_first(h, n) ==
    <<RegLock(h[n].builtins), EnvLock(n)>>

(* Env::lookup_builtin: `env.lock()` and then `env.builtins.lock()`, the   *)
(* first guard still alive.                                                *)
lookup_builtin_locks(h, n) == <<EnvLock(n), RegLock(h[n].builtins)>>

(* The first step of an operation.  declare is `env.lock().unwrap()        *)
(* .declare(..)` of the evaluator; assign and lookup start in resolve; a   *)
(* builtin is looked up and then run (push, pop and set write the list     *)
(* back with assign_unchecked); register_builtin is reached through        *)
(* use_module, which locks the environment first.                          *)
FirstPc(op) ==
    CASE op = "declare" -> "declare_lock"
      [] op \in {"assign", "lookup"} -> "resolve_test_lock"
      [] op \in {"lookup_builtin", "run"} -> "lookup_builtin_lock1"
      [] op = "with_parent" -> "with_parent_lock"
      [] op = "register_builtin" -> "use_module_lock"
      [] op = "use" -> "use_lock"

(* The Mutex the thread's next step locks, NoLock when its next step locks *)
(* nothing.                                                                *)
Wants(t) ==
    LET th == threads[t]
    IN CASE th.pc \in {"declare_lock", "with_parent_lock", "use_module_lock",
                       "use_lock", "use_eval_lock", "resolve_test_lock",
                       "resolve_match_lock", "target_lock"} -> EnvLock(th.cur)
         [] th.pc = "register_lock" -> RegLock(envs[th.cur].builtins)
         [] th.pc = "lookup_builtin_lock1" -> lookup_builtin_locks(envs, th.cur)[1]
         [] th.pc = "lookup_builtin_lock2" -> lookup_builtin_locks(envs, th.cur)[2]
         [] OTHER -> NoLock

(* Where the thread is once it owns the Mutex. *)
AfterLock(pc) ==
    CASE pc = "declare_lock" -> "declare"
      [] pc = "with_parent_lock" -> "with_parent"
      [] pc = "use_module_lock" -> "register_lock"
      [] pc = "register_lock" -> "register"
      [] pc = "lookup_builtin_lock1" -> "lookup_builtin_lock2"
      [] pc = "lookup_builtin_lock2" -> "lookup_builtin"
      [] pc = "resolve_test_lock" -> "resolve_test"
      [] pc = "resolve_match_lock" -> "resolve_match"
      [] pc = "target_lock" -> "target"
      [] pc = "use_lock" -> "use_new"
      [] pc = "use_eval_lock" -> "use_eval"

(* Threads that are going to create a node. *)
Creating == {u \in Threads : threads[u].op \in {"with_parent", "use"}
                              /\ threads[u].pc \notin {"use_eval_lock", "use_eval",
                                                        "use_bind"}}

(* The tree the threads share: a root that binds foo and a child of it. *)
LockInit ==
    /\ envs = with_parent(declare(<<NewEnv(0, 1)>>, 1, "foo", IntVal(0)).h, 1)
    /\ regs = <<register_builtins>>
    /\ last = NoOp
    /\ trace = <<>>
    /\ status = "running"
    /\ steps = 0
    /\ build = "debug"
    /\ threads = NoThreads

(* A thread enters an operation on node n. *)
LockBegin(t, op, n, name) ==
    /\ steps < MaxLockOps
    /\ threads[t].pc = "idle"
    /\ op \in {"with_parent", "use"} => Len(envs) + Cardinality(Creating) < MaxEnvs
    /\ threads' = [threads EXCEPT ![t] =
                       [op |-> op, pc |-> FirstPc(op), node |-> n, name |-> name,
                        cur |-> n, held |-> <<>>]]
    /\ steps' = steps + 1
    /\ UNCHANGED <<envs, regs, last, trace, status, build>>

(* Mutex::lock returns: the thread owns the guard. *)
LockAcquire(t) ==
    /\ Wants(t) # NoLock
    /\ Free(Wants(t))
    /\ threads' = [threads EXCEPT ![t].held = Append(@, Wants(t)),
                                  ![t].pc = AfterLock(@)]
    /\ UNCHANGED <<envs, regs, last, trace, status, steps, build>>

(* Env::declare under the caller's guard, which is a temporary of the      *)
(* statement.                                                              *)
StepDeclare(t) ==
    /\ threads[t].pc = "declare"
    /\ envs' = declare(envs, threads[t].node, threads[t].name, IntVal(1)).h
    /\ threads' = [threads EXCEPT ![t] = Idle]
    /\ UNCHANGED <<regs, last, trace, status, steps, build>>

(* Env::with_parent: the parent's guard lives to the end of the function. *)
StepWithParent(t) ==
    /\ threads[t].pc = "with_parent"
    /\ envs' = with_parent(envs, threads[t].node)
    /\ threads' = [threads EXCEPT ![t] = Idle]
    /\ UNCHANGED <<regs, last, trace, status, steps, build>>

(* StdModule::use_module for std/str: Env::register_builtin under the      *)
(* environment's guard and the registry's.                                 *)
StepRegister(t) ==
    /\ threads[t].pc = "register"
    /\ regs' = [regs EXCEPT ![envs[threads[t].node].builtins] =
                                use_module("std/str", @).reg]
    /\ threads' = [threads EXCEPT ![t] = Idle]
    /\ UNCHANGED <<envs, last, trace, status, steps, build>>

(* Env::lookup_builtin returns the function and both guards go; a builtin  *)
(* that is run then writes its list back: Env::assign_unchecked.           *)
StepLookupBuiltin(t) ==
    /\ threads[t].pc = "lookup_builtin"
    /\ threads' = [threads EXCEPT ![t] =
                       IF @.op = "run"
                       THEN [@ EXCEPT !.pc = "resolve_test_lock", !.held = <<>>]
                       ELSE Idle]
    /\ UNCHANGED <<envs, regs, last, trace, status, steps, build>>

(* Env::resolve, the `if`: the guard is a temporary of the condition and   *)
(* goes when the condition is evaluated.  When the node binds the name     *)
(* resolve returns it, and the returns of the enclosing resolve calls drop *)
(* the guards they hold.                                                   *)
StepResolveTest(t) ==
    /\ threads[t].pc = "resolve_test"
    /\ threads' = [threads EXCEPT ![t] =
                       IF @.name \in DOMAIN envs[@.cur].values
                       THEN [@ EXCEPT !.pc = "target_lock", !.held = <<>>]
                       ELSE [@ EXCEPT !.pc = "resolve_match_lock",
                                      !.held = SubSeq(@, 1, Len(@) - 1)]]
    /\ UNCHANGED <<envs, regs, last, trace, status, steps, build>>

(* Env::resolve, the `match`: the guard is a temporary of the scrutinee    *)
(* and lives to the end of the match, so across `Self::resolve(parent,     *)
(* ..)`.  Without a parent resolve returns the error and every guard goes; *)
(* assign and lookup return it, assign_unchecked panics on it.             *)
StepResolveMatch(t) ==
    /\ threads[t].pc = "resolve_match"
    /\ threads' = [threads EXCEPT ![t] =
                       IF envs[@.cur].parent # 0
                       THEN [@ EXCEPT !.pc = "resolve_test_lock",
                                      !.cur = envs[@].parent]
                       ELSE Idle]
    /\ UNCHANGED <<envs, regs, last, trace, status, steps, build>>

(* Env::assign, Env::assign_unchecked and Env::lookup after resolve: the   *)
(* node that binds the name is locked for the insert or the read.          *)
StepTarget(t) ==
    /\ threads[t].pc = "target"
    /\ envs' = IF threads[t].op = "lookup" THEN envs
               ELSE [envs EXCEPT ![threads[t].cur].values =
                                     MapInsert(@, threads[t].name, IntVal(1))]
    /\ threads' = [threads EXCEPT ![t] = Idle]
    /\ UNCHANGED <<regs, last, trace, status, steps, build>>

(* CliUseHook::eval_use: with the importing environment's guard in `env`,  *)
(* Env::with_builtins makes the module's environment.                      *)
StepUseNew(t) ==
    /\ threads[t].pc = "use_new"
    /\ envs' = with_builtins(envs, envs[threads[t].node].builtins)
    /\ threads' = [threads EXCEPT ![t].pc = "use_eval_lock",
                                  ![t].cur = Len(envs) + 1]
    /\ UNCHANGED <<regs, last, trace, status, steps, build>>

(* interpreter.eval(program, &mod_env) for a module that is `let v = 8`:   *)
(* the declare in the module's environment, the importing environment's    *)
(* guard still held.                                                       *)
StepUseEval(t) ==
    /\ threads[t].pc = "use_eval"
    /\ envs' = declare(envs, threads[t].cur, "v", IntVal(8)).h
    /\ threads' = [threads EXCEPT ![t].pc = "use_bind",
                                  ![t].held = SubSeq(@, 1, Len(@) - 1)]
    /\ UNCHANGED <<regs, last, trace, status, steps, build>>

(* env.declare_unchecked(ident, Mod(mod_env)) and the end of eval_use. *)
StepUseBind(t) ==
    /\ threads[t].pc = "use_bind"
    /\ envs' = declare_unchecked(envs, threads[t].node, "m",
                                 ModVal(threads[t].cur))
    /\ threads' = [threads EXCEPT ![t] = Idle]
    /\ UNCHANGED <<regs, last, trace, status, steps, build>>

NextLock ==
    \/ \E t \in Threads, op \in LockOps, n \in DOMAIN envs :
           \E name \in NamesOf(op) : LockBegin(t, op, n, name)
    \/ \E t \in Threads : LockAcquire(t)
    \/ \E t \in Threads : StepDeclare(t)
    \/ \E t \in Threads : StepWithParent(t)
    \/ \E t \in Threads : StepRegister(t)
    \/ \E t \in Threads : StepLookupBuiltin(t)
    \/ \E t \in Threads : StepResolveTest(t)
    \/ \E t \in Threads : StepResolveMatch(t)
    \/ \E t \in Threads : StepTarget(t)
    \/ \E t \in Threads : StepUseNew(t)
    \/ \E t \in Threads : StepUseEval(t)
    \/ \E t \in Threads : StepUseBind(t)

SpecLock == LockInit /\ [][NextLock]_vars

---------------------------------------------------------------------------
(* Properties of the environment (environment.rs)                          *)

(* The k-th node on the chain from n to the root (k = 0 is n itself), 0    *)
(* past the root.                                                          *)
RECURSIVE Anc(_, _, _)
Anc(h, n, k) ==
    IF n = 0 THEN 0 ELSE IF k = 0 THEN n ELSE Anc(h, h[n].parent, k - 1)

Binds(h, m, name) == m # 0 /\ name \in DOMAIN h[m].values

(* k is the distance from n of the nearest node binding name. *)
NearestAt(h, n, name, k) ==
    /\ Binds(h, Anc(h, n, k), name)
    /\ \A j \in 0..(k - 1) : ~Binds(h, Anc(h, n, j), name)

Unbound(h, n, name) == \A k \in 0..Len(h) : ~Binds(h, Anc(h, n, k), name)

(* Node m of heap g equals node m of heap h except that name is bound to   *)
(* value.                                                                  *)
SameExceptBinding(g, h, m, name, value) ==
    /\ Len(g) = Len(h)
    /\ \A i \in 1..Len(h) : i # m => g[i] = h[i]
    /\ g[m].parent = h[m].parent
    /\ g[m].builtins = h[m].builtins
    /\ DOMAIN g[m].values = DOMAIN h[m].values \cup {name}
    /\ g[m].values[name] = value
    /\ \A y \in DOMAIN h[m].values : y # name => g[m].values[y] = h[m].values[y]

(* C2: declare(name, value) on a node fails with IdentifierAlreadyExists   *)
(* exactly when the node's own bindings hold name (ancestors are not       *)
(* inspected); otherwise it inserts the binding in that node only and      *)
(* returns the value tagged with name.                                     *)
C2_DeclareOwnNodeOnly ==
    last.op = "declare" =>
        LET h == last.pre
            n == last.node
            x == last.name
        IN IF x \in DOMAIN h[n].values
           THEN last.res = Err("IdentifierAlreadyExists") /\ envs = h
           ELSE /\ last.res = Ok(with_ident(last.arg, x))
                /\ SameExceptBinding(envs, h, n, x, with_ident(last.arg, x))

(* A declare that shadowed a binding of the parent. *)
C2_Witness ==
    /\ last.op = "declare"
    /\ last.res.tag = "Ok"
    /\ last.pre[last.node].parent # 0
    /\ Binds(last.pre, last.pre[last.node].parent, last.name)
    /\ Binds(envs, last.node, last.name)

(* C3: lookup(name) from node n returns the value bound in the nearest     *)
(* node of the chain from n to the root that binds name.                   *)
C3_LookupNearest ==
    last.op = "lookup" =>
        \A k \in 0..Len(envs) :
            NearestAt(last.pre, last.node, last.name, k) =>
                last.res = Ok(last.pre[Anc(last.pre, last.node, k)].values[last.name])

(* A lookup from a child whose own binding shadows a different binding of  *)
(* its parent.                                                             *)
C3_Witness ==
    /\ last.op = "lookup"
    /\ last.res.tag = "Ok"
    /\ envs[last.node].parent # 0
    /\ Binds(envs, last.node, last.name)
    /\ Binds(envs, envs[last.node].parent, last.name)
    /\ envs[last.node].values[last.name] #
           envs[envs[last.node].parent].values[last.name]

(* C4: assign(name, value) overwrites name in the nearest node that binds  *)
(* it and changes nothing else (no node gains a name, farther bindings and *)
(* other names are untouched); a following lookup from the starting node   *)
(* returns the assigned value.                                             *)
C4_AssignNearestOnly ==
    last.op = "assign" =>
        \A k \in 0..Len(envs) :
            NearestAt(last.pre, last.node, last.name, k) =>
                LET e == Anc(last.pre, last.node, k)
                IN /\ last.res = Ok(last.arg)
                   /\ SameExceptBinding(envs, last.pre, e, last.name, last.arg)
                   /\ \A i \in 1..Len(envs) :
                          DOMAIN envs[i].values = DOMAIN last.pre[i].values
                   /\ lookup(envs, last.node, last.name) = Ok(last.arg)

(* An assign from a child that changed the binding of an ancestor while a  *)
(* farther ancestor binds the same name.                                   *)
C4_Witness ==
    /\ last.op = "assign"
    /\ last.res.tag = "Ok"
    /\ ~Binds(last.pre, last.node, last.name)
    /\ \E k \in 1..Len(envs), j \in 1..Len(envs) :
           /\ k < j
           /\ NearestAt(last.pre, last.node, last.name, k)
           /\ Binds(last.pre, Anc(last.pre, last.node, j), last.name)
           /\ envs[Anc(envs, last.node, k)].values[last.name] #
                  last.pre[Anc(envs, last.node, k)].values[last.name]

(* C5: lookup and assign fail with IdentifierNotFound when no node of the  *)
(* chain binds name, and then no node's bindings change.                   *)
C5_NotFoundNoChange ==
    (last.op \in {"lookup", "assign"}
        /\ Unbound(last.pre, last.node, last.name)) =>
            last.res = Err("IdentifierNotFound") /\ envs = last.pre

(* An assign of an unbound name from a node at depth two. *)
C5_Witness ==
    /\ last.op = "assign"
    /\ last.res = Err("IdentifierNotFound")
    /\ Anc(envs, last.node, 2) # 0
    /\ \E m \in 1..Len(envs) : DOMAIN envs[m].values # {}


---------------------------------------------------------------------------
(* Properties of the evaluator (interpreter.rs), stated over the event log *)
(* of the last evaluated program.                                          *)

Idx == DOMAIN trace

Max(S) == CHOOSE m \in S : \A n \in S : n <= m
Min(S) == CHOOSE m \in S : \A n \in S : m <= n

(* The next (previous) iteration, statement or end event of the activation *)
(* of event k; 0 when there is none.                                       *)
Steps(a) == {j \in Idx : trace[j].a = a /\ trace[j].e \in {"iter", "stmt", "end"}}

NextOf(k) ==
    LET S == {j \in Steps(trace[k].a) : j > k}
    IN IF S = {} THEN 0 ELSE Min(S)

PrevOf(k) ==
    LET S == {j \in Steps(trace[k].a) : j < k}
    IN IF S = {} THEN 0 ELSE Max(S)

(* The event that opened activation a, of the given kind. *)
BeginOf(a, kinds) == {k \in Idx : trace[k].a = a /\ trace[k].e \in kinds}

Distinct(seq) == \A i, j \in DOMAIN seq : i # j => seq[i] # seq[j]

(* C1: every call of a user-defined function binds its parameters in a     *)
(* scope that is fresh for the call: when the call starts the scope holds  *)
(* none of the parameter names, and no parameter binding fails with        *)
(* IdentifierAlreadyExists, also for a second call and for a call made     *)
(* while another call of the function is active.                           *)
C1_FreshScopePerCall ==
    \A k \in Idx :
        (trace[k].e = "call" /\ Distinct(trace[k].s.params)) =>
            /\ \A p \in DOMAIN trace[k].s.params :
                   trace[k].s.params[p] \notin DOMAIN trace[k].h[trace[k].env].values
            /\ \A j \in Idx :
                   (trace[j].e = "bind" /\ trace[j].a = trace[k].a) =>
                       trace[j].r.tag = "Ok"

(* C6: a push, pop or set called with a variable x as its list argument    *)
(* writes the list it returns back to x, in the node that binds x, and     *)
(* changes no other binding.                                               *)
MutatingFns == {"PushFn", "PopFn", "SetFn"}

C6_ListWriteBack ==
    \A k \in Idx :
        (/\ trace[k].e = "callsite"
         /\ k + 2 \in Idx
         /\ trace[k + 1].e = "builtin"
         /\ trace[k + 1].s.fn \in MutatingFns
         /\ trace[k + 2].e = "builtin_end"
         /\ trace[k + 2].r.tag = "Ok"
         /\ trace[k + 2].r.val.kind = "List"
         /\ Len(trace[k].s.args) >= 1
         /\ trace[k].s.args[1].t = "Ident") =>
            LET x == trace[k].s.args[1].ident
                pre == trace[k + 1].h
                post == trace[k + 2].h
                e == resolve(pre, trace[k].env, x)
            IN /\ e # 0
               /\ SameExceptBinding(post, pre, e, x, post[e].values[x])
               /\ post[e].values[x].kind = "List"
               /\ post[e].values[x].items = trace[k + 2].r.val.items

(* C7: every value stored in an environment under a name carries that name *)
(* as its identifier tag.                                                  *)
C7_StoredValuesTagged ==
    \A n \in DOMAIN envs :
        \A x \in DOMAIN envs[n].values : envs[n].values[x].ident = <<x>>

(* C8: a conditional body and each loop iteration are block-scoped: the    *)
(* enclosing environment binds the same names at every later iteration     *)
(* start and at the end as when the statement began; a `let` of the body   *)
(* that succeeded in one iteration does not fail with                      *)
(* IdentifierAlreadyExists in a later one; an assignment of the body to a  *)
(* name of the enclosing chain is what the enclosing environment sees when *)
(* the iteration or the body is over.                                      *)
C8_NamesKept ==
    \A b \in Idx :
        trace[b].e \in {"cond", "loop"} =>
            \A k \in Idx :
                (k > b /\ trace[k].a = trace[b].a /\ trace[k].e \in {"iter", "end"}) =>
                    DOMAIN trace[k].h[trace[b].encl].values =
                        DOMAIN trace[b].h[trace[b].encl].values

C8_LetRepeats ==
    \A k1, k2 \in Idx :
        (/\ k1 < k2
         /\ trace[k1].e = "stmt" /\ trace[k2].e = "stmt"
         /\ trace[k1].a = trace[k2].a /\ trace[k1].i = trace[k2].i
         /\ BeginOf(trace[k1].a, {"loop"}) # {}
         /\ trace[k1].s.t = "Var"
         /\ trace[k1].r.tag = "Ok") =>
            trace[k2].r # Err("IdentifierAlreadyExists")

C8_AssignPersists ==
    \A k \in Idx :
        (/\ trace[k].e = "stmt"
         /\ BeginOf(trace[k].a, {"cond", "loop"}) # {}
         /\ trace[k].s.t = "Assignment"
         /\ trace[k].r.tag = "Ok"
         /\ trace[k].s.assignee.ident \notin DOMAIN trace[k].h[trace[k].env].values
         /\ NextOf(k) # 0
         /\ trace[NextOf(k)].e \in {"iter", "end"}) =>
            lookup(trace[NextOf(k)].h, trace[k].encl, trace[k].s.assignee.ident)
                = Ok(trace[k].r.val)

C8_BlockScoped == C8_NamesKept /\ C8_LetRepeats /\ C8_AssignPersists

(* C9: in a loop, after a statement that completed the next statement of   *)
(* the body runs, or a new iteration starts after the last one; after a    *)
(* Continue the remaining statements are skipped and a new iteration       *)
(* starts; after a Break the loop ends with an Ok result; any other result *)
(* (a Return, an error) ends the loop and is the loop's result unchanged.  *)
(* A loop ends only after a statement whose result is a Break, a Return or *)
(* an error.                                                               *)
C9_LoopControl ==
    \A b \in Idx :
        trace[b].e = "loop" =>
            LET a == trace[b].a
                body == trace[b].s.body
            IN \A k \in Steps(a) \cup {b} :
                LET ev == trace[k]
                    n == NextOf(k)
                IN CASE ev.e = "loop" -> n # 0 /\ trace[n].e = "iter"
                     [] ev.e = "iter" ->
                            /\ n # 0
                            /\ IF Len(body) = 0 THEN trace[n].e = "iter"
                               ELSE /\ trace[n].e = "stmt"
                                    /\ trace[n].i = 1
                                    /\ trace[n].env = ev.env
                     [] ev.e = "stmt" /\ ev.r.tag = "Ok" ->
                            /\ n # 0
                            /\ IF ev.i < Len(body)
                               THEN /\ trace[n].e = "stmt"
                                    /\ trace[n].i = ev.i + 1
                                    /\ trace[n].env = ev.env
                               ELSE trace[n].e = "iter" /\ trace[n].env # ev.env
                     [] ev.e = "stmt" /\ ev.r.tag = "Exc" /\ ev.r.err = "Continue" ->
                            n # 0 /\ trace[n].e = "iter" /\ trace[n].env # ev.env
                     [] ev.e = "stmt" /\ ev.r.tag = "Exc" /\ ev.r.err = "Break" ->
                            n # 0 /\ trace[n].e = "end" /\ trace[n].r.tag = "Ok"
                     [] ev.e = "stmt" ->
                            n # 0 /\ trace[n].e = "end" /\ trace[n].r = ev.r
                     [] ev.e = "end" ->
                            /\ n = 0
                            /\ PrevOf(k) # 0
                            /\ trace[PrevOf(k)].e = "stmt"
                            /\ trace[PrevOf(k)].r.tag # "Ok"
                            /\ ~(trace[PrevOf(k)].r.tag = "Exc"
                                 /\ trace[PrevOf(k)].r.err = "Continue")

(* A loop in which a Continue skipped a statement and started a new        *)
(* iteration, and which a Break then ended with an Ok result.              *)
C9_Witness ==
    /\ \E k \in Idx :
           /\ trace[k].e = "stmt"
           /\ trace[k].r.tag = "Exc" /\ trace[k].r.err = "Continue"
           /\ BeginOf(trace[k].a, {"loop"}) # {}
           /\ trace[k].i < Len(trace[Min(BeginOf(trace[k].a, {"loop"}))].s.body)
           /\ \E j \in Steps(trace[k].a) :
                  j > k /\ trace[j].e = "end" /\ trace[j].r.tag = "Ok"
    /\ last.res.tag = "Ok"

(* C10: the value of a loop ended by Break is the value of the last        *)
(* statement that completed in the final iteration, and None when no       *)
(* statement completed in that iteration.                                  *)
C10_BreakValueOfFinalIteration ==
    \A k \in Idx :
        (/\ trace[k].e = "end"
         /\ BeginOf(trace[k].a, {"loop"}) # {}
         /\ trace[PrevOf(k)].r.tag = "Exc"
         /\ trace[PrevOf(k)].r.err = "Break") =>
            LET it == Max({j \in Steps(trace[k].a) : j < k /\ trace[j].e = "iter"})
                oks == {j \in Steps(trace[k].a) :
                            j > it /\ j < k /\ trace[j].r.tag = "Ok"}
            IN trace[k].r = Ok(IF oks = {} THEN NONE ELSE trace[Max(oks)].r.val)

(* C11: a conditional whose condition evaluates to a value that is not a   *)
(* Bool gives an error result: the statement's result is an Err, the       *)
(* process does not abort, the body is not entered and nothing changes.    *)
C11_NonBoolConditionIsError ==
    \A k \in Idx :
        (/\ trace[k].e = "test"
         /\ trace[k].r.tag = "Ok"
         /\ trace[k].r.val.kind # "Bool") =>
            /\ k + 1 \in Idx
            /\ trace[k + 1].e = "stmt"
            /\ trace[k + 1].s.t = "Cond"
            /\ trace[k + 1].r.tag = "Err"
            /\ trace[k + 1].h = trace[k].h
            /\ status # "aborted"

(* C12: Int / Int with a zero divisor evaluates to the recoverable error   *)
(* ArithmeticError and does not abort; with a non-zero divisor the result  *)
(* is the quotient truncated toward zero: the remainder a - q * b is       *)
(* smaller than the divisor in magnitude and zero or of the sign of a.     *)
C12_Lit(e) ==
    CASE e.t = "Int" -> <<e.n>>
      [] e.t = "UnaryOp" /\ e.op = "Neg" /\ e.expr.t = "Int" -> <<-e.expr.n>>
      [] OTHER -> <<>>

C12_Abs(n) == IF n < 0 THEN -n ELSE n

C12_DivisionByZeroIsError ==
    \A k \in Idx :
        (/\ trace[k].e = "stmt"
         /\ trace[k].s.t = "BinaryOp"
         /\ trace[k].s.op = "Div"
         /\ C12_Lit(trace[k].s.left) # <<>>
         /\ C12_Lit(trace[k].s.right) # <<>>) =>
            LET a == C12_Lit(trace[k].s.left)[1]
                b == C12_Lit(trace[k].s.right)[1]
                r == trace[k].r
            IN IF b = 0
               THEN r = Err("ArithmeticError") /\ status # "aborted"
               ELSE /\ r.tag = "Ok"
                    /\ r.val.kind = "Int"
                    /\ LET rem == a - r.val.n * b
                       IN /\ C12_Abs(rem) < C12_Abs(b)
                          /\ rem = 0 \/ (rem > 0) = (a > 0)

(* Activation a (a program, conditional body, loop or call) has begun and  *)
(* not ended when event k is logged.                                       *)
Active(a, k) ==
    /\ \E b \in Idx : b < k /\ trace[b].a = a
                      /\ trace[b].e \in {"program", "cond", "loop", "call"}
    /\ ~\E j \in Idx : j < k /\ trace[j].a = a /\ trace[j].e = "end"

InLoop(k) == \E b \in Idx : trace[b].e = "loop" /\ Active(trace[b].a, k)
InCall(k) == \E b \in Idx : trace[b].e = "call" /\ Active(trace[b].a, k)

(* A statement that is a break or continue with no loop active, or a       *)
(* return with no call active.                                             *)
Stray(k) ==
    /\ trace[k].e = "stmt"
    /\ trace[k].r.tag = "Exc"
    /\ \/ trace[k].s.t \in {"Break", "Continue"} /\ ~InLoop(k)
       \/ trace[k].s.t = "Return" /\ ~InCall(k)

(* C13: a break or continue outside any loop and a return outside any call *)
(* make the evaluation of the program return the signal as its Err result: *)
(* no statement runs after it, the process does not abort and the          *)
(* environments are as the statements before the signal left them.         *)
C13_StraySignalIsError ==
    \A k \in Idx :
        Stray(k) =>
            /\ last.res = trace[k].r
            /\ status = "exited"
            /\ envs = trace[k].h
            /\ \A j \in Idx :
                   j > k => trace[j].e \in {"stmt", "end"} /\ trace[j].r = trace[k].r

(* A break raised in a function body called outside any loop, after a      *)
(* `let` of the same program whose binding is kept.                        *)
C13_Witness ==
    \E k \in Idx :
        /\ Stray(k)
        /\ trace[k].s.t = "Break"
        /\ InCall(k)
        /\ last.res = Exc("Break", <<>>)
        /\ "u" \in DOMAIN envs[1].values
        /\ "u" \notin DOMAIN last.pre[1].values
        /\ "u2" \notin DOMAIN envs[1].values

(* An evaluation state that starts from heap h with the registries of the  *)
(* current state.                                                          *)
StateAt(h, rg) ==
    [h |-> h, rg |-> rg, tr |-> <<>>, fuel |-> MaxIter, nact |-> 0,
     build |-> build]

(* C14: in a call of a user function the body statements run in order in   *)
(* the call's scope (the scope holding the parameters); a Return raised by *)
(* a statement, directly or from a nested conditional or loop, ends the    *)
(* call: no further statement runs and the result is the value of the      *)
(* Return's expression evaluated in the call's scope, or None without an   *)
(* expression.  Without a Return the result is the value of the last       *)
(* statement, or None for an empty body.                                   *)
C14_ReturnEndsCall ==
    \A b \in Idx :
        (/\ trace[b].e = "call"
         /\ \A j \in Idx : (trace[j].e = "bind" /\ trace[j].a = trace[b].a) =>
                               trace[j].r.tag = "Ok") =>
            LET a == trace[b].a
                body == trace[b].s.body
                scope == trace[b].env
            IN \A k \in {j \in Steps(a) : trace[j].e = "stmt"} \cup {b} :
                LET ev == trace[k]
                    n == NextOf(k)
                IN /\ n # 0
                   /\ CASE ev.e = "call" ->
                              IF Len(body) = 0
                              THEN trace[n].e = "end" /\ trace[n].r = Ok(NONE)
                              ELSE /\ trace[n].e = "stmt" /\ trace[n].i = 1
                                   /\ trace[n].env = scope
                        [] ev.r.tag = "Ok" ->
                              IF ev.i < Len(body)
                              THEN /\ trace[n].e = "stmt"
                                   /\ trace[n].i = ev.i + 1
                                   /\ trace[n].env = scope
                              ELSE trace[n].e = "end" /\ trace[n].r = Ok(ev.r.val)
                        [] ev.r.tag = "Exc" /\ ev.r.err = "Return" ->
                              /\ trace[n].e = "end"
                              /\ trace[n].r =
                                    IF ev.r.ret = <<>> THEN Ok(NONE)
                                    ELSE eval(ev.r.ret[1], scope,
                                              StateAt(ev.h, regs)).r
                        [] OTHER -> trace[n].e = "end" /\ trace[n].r = ev.r

(* A call whose Return was raised inside a conditional body that shadows   *)
(* the parameter p with 2: the call's result is the parameter's value 1,   *)
(* and the statement after the conditional did not run.                    *)
C14_Witness ==
    \E b, k \in Idx :
        /\ trace[b].e = "call"
        /\ trace[k].e = "stmt" /\ trace[k].a = trace[b].a
        /\ trace[k].s.t = "Cond"
        /\ trace[k].r = Exc("Return", <<Ident("p")>>)
        /\ trace[k].i < Len(trace[b].s.body)
        /\ \E c \in DOMAIN trace[k].h :
               /\ trace[k].h[c].parent = trace[b].env
               /\ "p" \in DOMAIN trace[k].h[c].values
               /\ trace[k].h[c].values["p"].n = 2
        /\ trace[NextOf(k)].e = "end"
        /\ trace[NextOf(k)].r.tag = "Ok"
        /\ trace[NextOf(k)].r.val.n = 1
        /\ last.res = trace[NextOf(k)].r

(* C15: a call `m.f(args)` whose module segment m yields a Module value    *)
(* resolves f in the module's environment: when the module binds f to a    *)
(* user-defined function (and has no builtin f) that function is the one   *)
(* invoked, whatever the call-site environment binds under f.              *)
C15_ModuleCallResolvesInModule ==
    \A k \in Idx :
        (/\ trace[k].e = "callsite"
         /\ trace[k].s.caller.t = "Mod"
         /\ trace[k].s.caller.module.t = "Ident"
         /\ trace[k].s.caller.item.t = "Ident"
         /\ lookup(trace[k].h, trace[k].env, trace[k].s.caller.module.ident).tag = "Ok"
         /\ lookup(trace[k].h, trace[k].env, trace[k].s.caller.module.ident).val.kind = "Mod") =>
            LET h == trace[k].h
                me == lookup(h, trace[k].env, trace[k].s.caller.module.ident).val.env
                f == trace[k].s.caller.item.ident
            IN (/\ f \in DOMAIN h[me].values
                /\ h[me].values[f].kind = "Func"
                /\ Len(h[me].values[f].params) = Len(trace[k].r.val.items)
                /\ lookup_builtin(h, regs, me, f) = "") =>
                    /\ k + 1 \in Idx
                    /\ trace[k + 1].e = "call"
                    /\ trace[k + 1].env = h[me].values[f].env
                    /\ trace[k + 1].s.body = h[me].values[f].body

(* C16: a call whose caller is an identifier naming an entry of the        *)
(* builtin registry runs that builtin, with the evaluated arguments and    *)
(* the call-site environment, whether or not a user binding of the name is *)
(* visible at the call site; no scope is created and no user function is   *)
(* entered, and the result is a value (None when the builtin gives none).  *)
C16_BuiltinFirst ==
    \A k \in Idx :
        (/\ trace[k].e = "callsite"
         /\ trace[k].s.caller.t = "Ident"
         /\ lookup_builtin(trace[k].h, regs, trace[k].env,
                           trace[k].s.caller.ident) # "") =>
            /\ k + 2 \in Idx
            /\ trace[k + 1].e = "builtin"
            /\ trace[k + 1].s.fn = lookup_builtin(trace[k].h, regs, trace[k].env,
                                                  trace[k].s.caller.ident)
            /\ trace[k + 1].r = Ok(ListVal(trace[k].r.val.items))
            /\ trace[k + 1].env = trace[k].env
            /\ trace[k + 2].e = "builtin_end"
            /\ trace[k + 2].env = trace[k].env
            /\ Len(trace[k + 2].h) = Len(trace[k].h)
            /\ trace[k + 2].r.tag \in {"Ok", "Panic"}

(* The builtin len ran, and returned 2, where the call site binds len to a *)
(* user function that returns 0; a later call of it on an Int gave None.   *)
C16_Witness ==
    \E k, j \in Idx :
        /\ trace[k].e = "callsite"
        /\ trace[k].s.caller = Ident("len")
        /\ lookup(trace[k].h, trace[k].env, "len").tag = "Ok"
        /\ lookup(trace[k].h, trace[k].env, "len").val.kind = "Func"
        /\ trace[k + 2].e = "builtin_end"
        /\ trace[k + 2].r = Ok(IntVal(2))
        /\ j > k + 2
        /\ trace[j].e = "builtin_end"
        /\ trace[j].r = Ok(NONE)

(* The value of the caller of the call logged at k, where the caller is    *)
(* not a module access: what the caller expression evaluates to at the     *)
(* call site once the arguments are evaluated.                             *)
CallerAt(k) ==
    IF trace[k].s.caller.t = "Ident"
    THEN lookup(trace[k].h, trace[k].env, trace[k].s.caller.ident)
    ELSE eval(trace[k].s.caller, trace[k].env, StateAt(trace[k].h, regs)).r

(* The caller of the call logged at k is neither a module access nor the   *)
(* name of a builtin.                                                      *)
PlainCall(k) ==
    /\ trace[k].e = "callsite"
    /\ trace[k].s.caller.t # "Mod"
    /\ trace[k].s.caller.t = "Ident" =>
           lookup_builtin(trace[k].h, regs, trace[k].env,
                          trace[k].s.caller.ident) = ""

(* C17: a call of a user function with a number of arguments other than    *)
(* its number of parameters fails with MismatchedArgs once the arguments   *)
(* are evaluated: the function is not entered, no parameter is bound, no   *)
(* body statement runs and no environment changes.                         *)
C17_MismatchedArgs ==
    \A k \in Idx :
        (/\ PlainCall(k)
         /\ CallerAt(k).tag = "Ok"
         /\ CallerAt(k).val.kind = "Func"
         /\ Len(CallerAt(k).val.params) # Len(trace[k].r.val.items)) =>
            /\ k + 1 \in Idx
            /\ trace[k + 1].e \in {"stmt", "end"}
            /\ trace[k + 1].r = Err("MismatchedArgs")
            /\ trace[k + 1].h = trace[k].h
            /\ \A j \in Idx : j > k => trace[j].e \notin {"call", "bind"}

(* A call with one argument too many, refused after its first argument, a  *)
(* push, was evaluated and wrote to x2.                                    *)
C17_Witness ==
    \E k \in Idx :
        /\ PlainCall(k)
        /\ CallerAt(k).tag = "Ok"
        /\ CallerAt(k).val.kind = "Func"
        /\ Len(CallerAt(k).val.params) < Len(trace[k].r.val.items)
        /\ k > 1
        /\ trace[k - 1].e = "builtin_end"
        /\ last.res = Err("MismatchedArgs")
        /\ "x2" \in DOMAIN envs[1].values
        /\ envs[1].values["x2"].items = <<IntVal(3)>>
        /\ CallerAt(k).val.env \in DOMAIN envs
        /\ DOMAIN envs[CallerAt(k).val.env].values = {}

StartHeap(k) ==
    IF PrevOf(k) # 0 THEN trace[PrevOf(k)].h
    ELSE trace[Min(BeginOf(trace[k].a, {"program", "cond"}))].h

InBody(k) ==
    /\ trace[k].e = "stmt"
    /\ \/ PrevOf(k) # 0
       \/ BeginOf(trace[k].a, {"program", "cond"}) # {}

(* The call a statement `left |> f(a1..an)` stands for. *)
AsCall(stmt) ==
    IF stmt.t = "Pipe" /\ stmt.right.t = "Call"
    THEN Call(stmt.right.caller, <<stmt.left>> \o stmt.right.args)
    ELSE stmt

(* An event without the syntax of the statement or program it reports. *)
Effect(ev) == [ev EXCEPT !.s = IF ev.e \in {"stmt", "program"} THEN Nop ELSE @]

(* C19: a program in which statements are pipes `left |> f(a1..an)` does   *)
(* what the program with the calls `f(left, a1..an)` in their place does   *)
(* from the same environments and registries: the same result, the same    *)
(* environments and registries afterwards and the same events in the same  *)
(* order.  A pipe whose right side is not a call fails with                *)
(* InvalidPipeCaller and evaluates neither side: nothing is logged and     *)
(* nothing changes between the start of the statement and its failure.     *)
C19_PipeIsCall ==
    /\ (last.op = "eval" /\ \E i \in DOMAIN last.prog : last.prog[i].t = "Pipe") =>
          LET o == eval(Program([i \in DOMAIN last.prog |-> AsCall(last.prog[i])]),
                        1, StateAt(last.pre, last.rg))
          IN /\ o.r = last.res
             /\ o.st.h = envs
             /\ o.st.rg = regs
             /\ Len(o.st.tr) = Len(trace)
             /\ \A j \in Idx : Effect(o.st.tr[j]) = Effect(trace[j])
    /\ \A k \in Idx :
          (/\ InBody(k)
           /\ trace[k].s.t = "Pipe"
           /\ trace[k].s.right.t # "Call") =>
              /\ trace[k].r = Err("InvalidPipeCaller")
              /\ trace[k].h = StartHeap(k)
              /\ k > 1
              /\ trace[k - 1].a = trace[k].a
              /\ trace[k - 1].e \in {"program", "cond", "iter", "stmt"}

(* `x |> push(3)` ran and wrote the list [.., 3] back, as reported by the  *)
(* events of the builtin call whose first argument is the value of x.      *)
C19_Witness ==
    /\ last.op = "eval"
    /\ \E i \in DOMAIN last.prog :
           /\ last.prog[i].t = "Pipe"
           /\ last.prog[i].left = Ident("x")
    /\ last.res.tag = "Ok"
    /\ last.res.val.kind = "List"
    /\ envs # last.pre
    /\ \E k \in Idx :
           /\ trace[k].e = "builtin"
           /\ trace[k].s.fn = "PushFn"
           /\ Len(trace[k].r.val.items) = 2
           /\ trace[k].r.val.items[1].kind = "List"
           /\ trace[k].r.val.items[2] = IntVal(3)

(* C20: for And and Or both operands are evaluated, the left one first and *)
(* the right one in the state the left one produced, whatever the left     *)
(* value is: the state after the expression is the state after the right   *)
(* operand.  The result is the Bool of the operation when both values are  *)
(* Bool and LogicalExpressionUnsupported otherwise.                        *)
C20_NoShortCircuit ==
    \A k \in Idx :
        (InBody(k) /\ trace[k].s.t = "LogicOp") =>
            LET l == eval(trace[k].s.left, trace[k].env,
                          StateAt(StartHeap(k), regs))
                r == eval(trace[k].s.right, trace[k].env, l.st)
            IN (l.r.tag = "Ok" /\ r.r.tag = "Ok") =>
                   /\ trace[k].h = r.st.h
                   /\ trace[k].r =
                        IF l.r.val.kind = "Bool" /\ r.r.val.kind = "Bool"
                        THEN Ok(BoolVal(IF trace[k].s.op = "And"
                                        THEN l.r.val.b /\ r.r.val.b
                                        ELSE l.r.val.b \/ r.r.val.b))
                        ELSE Err("LogicalExpressionUnsupported")

(* `false && (d = true)` evaluated to false and `true || (d = false)` to   *)
(* true, and each time d holds what the right operand assigned.            *)
C20_Witness ==
    \E k, j \in Idx :
        /\ k < j
        /\ InBody(k) /\ InBody(j)
        /\ trace[k].s.t = "LogicOp" /\ trace[k].s.op = "And"
        /\ trace[k].s.left = Bool(FALSE)
        /\ trace[k].r = Ok(BoolVal(FALSE))
        /\ lookup(trace[k].h, trace[k].env, "d").val.b = TRUE
        /\ trace[j].s.t = "LogicOp" /\ trace[j].s.op = "Or"
        /\ trace[j].s.left = Bool(TRUE)
        /\ trace[j].r = Ok(BoolVal(TRUE))
        /\ lookup(envs, 1, "d").val.b = FALSE

(* C21: evaluating a Program evaluates its statements in order, each in    *)
(* the environment given; the result is the value of the last statement,   *)
(* or None for an empty body; the first statement whose result is not a    *)
(* value (an error or a control signal) ends the evaluation with that      *)
(* result and no later statement is evaluated.                             *)
C21_ProgramInOrder ==
    /\ \A b \in Idx :
          trace[b].e = "program" =>
              LET body == trace[b].s.body
              IN \A k \in {j \in Steps(trace[b].a) : trace[j].e = "stmt"} \cup {b} :
                  LET ev == trace[k]
                      n == NextOf(k)
                  IN /\ n # 0
                     /\ CASE ev.e = "program" ->
                                IF Len(body) = 0
                                THEN trace[n].e = "end" /\ trace[n].r = Ok(NONE)
                                ELSE /\ trace[n].e = "stmt" /\ trace[n].i = 1
                                     /\ trace[n].env = ev.env
                                     /\ trace[n].s = body[1]
                          [] ev.r.tag = "Ok" ->
                                IF ev.i < Len(body)
                                THEN /\ trace[n].e = "stmt"
                                     /\ trace[n].i = ev.i + 1
                                     /\ trace[n].env = ev.env
                                     /\ trace[n].s = body[ev.i + 1]
                                ELSE trace[n].e = "end" /\ trace[n].r = Ok(ev.r.val)
                          [] OTHER -> trace[n].e = "end" /\ trace[n].r = ev.r
    /\ last.op = "eval" =>
          /\ trace[1].e = "program"
          /\ trace[1].env = 1
          /\ trace[1].s.body = last.prog
          /\ trace[Len(trace)].e = "end"
          /\ trace[Len(trace)].a = trace[1].a
          /\ last.res = trace[Len(trace)].r
          /\ envs = trace[Len(trace)].h

(* A program of three statements whose second one failed: the first one's  *)
(* binding is there, the third one was not evaluated and the program's     *)
(* result is the error.                                                    *)
C21_Witness ==
    /\ last.op = "eval"
    /\ Len(last.prog) = 3
    /\ last.res = Err("IdentifierNotFound")
    /\ "e1" \in DOMAIN envs[1].values
    /\ "e2" \notin DOMAIN envs[1].values
    /\ \E k \in Idx : trace[k].e = "stmt" /\ trace[k].a = 1 /\ trace[k].i = 2
    /\ ~\E k \in Idx : trace[k].e = "stmt" /\ trace[k].a = 1 /\ trace[k].i = 3

(* The paths the ModuleHook of the CLI answers for. *)
HookPaths == {"std/io", "std/list", "std/str"}

(* The event that opened the evaluation of a module's program during the   *)
(* Use statement logged at k.                                              *)
ModulePrograms(k) ==
    {j \in Idx : /\ j < k
                 /\ trace[j].e = "program"
                 /\ trace[j].env \notin DOMAIN StartHeap(k)
                 /\ trace[j].s.body = ModuleFiles[trace[k].s.path]}

(* C22: a Use statement whose path the ModuleHook answers for is done with *)
(* that: no module file is read or evaluated and nothing is bound, even    *)
(* when a file exists at the path.  Otherwise the UseHook evaluates the    *)
(* module's program in a new environment that has no parent and refers to  *)
(* the importing environment's registry, and binds the Module under the    *)
(* path's final segment in the importing environment, whatever that name   *)
(* was bound to before: a repeated import succeeds and replaces the        *)
(* binding.  A path with no file fails with ModuleNotFound.                *)
C22_UseHooksInOrder ==
    \A k \in Idx :
        (InBody(k) /\ trace[k].s.t = "Use") =>
            LET path == trace[k].s.path
                env == trace[k].env
                h0 == StartHeap(k)
                h1 == trace[k].h
                seg == LastSegment(path)
            IN CASE path \in HookPaths ->
                        /\ trace[k].r = Ok(NONE)
                        /\ h1 = h0
                        /\ ModulePrograms(k) = {}
                 [] path \in DOMAIN ModuleFiles ->
                        /\ trace[k].r = Ok(NONE)
                        /\ \E j \in ModulePrograms(k) :
                              LET me == trace[j].env
                              IN /\ h1[me].parent = 0
                                 /\ h1[me].builtins = h0[env].builtins
                                 /\ h1[env].values[seg].kind = "Mod"
                                 /\ h1[env].values[seg].env = me
                        /\ DOMAIN h1[env].values = DOMAIN h0[env].values \cup {seg}
                        /\ \A x \in DOMAIN h0[env].values :
                               x # seg => h1[env].values[x] = h0[env].values[x]
                 [] OTHER -> trace[k].r = Err("ModuleNotFound") /\ h1 = h0

(* A second `use lib/m`: m was bound to a Module before and is bound to a  *)
(* Module with another, new environment afterwards.                        *)
C22_Witness ==
    \E k \in Idx :
        /\ InBody(k)
        /\ trace[k].s = Use("lib/m")
        /\ trace[k].r = Ok(NONE)
        /\ "m" \in DOMAIN StartHeap(k)[trace[k].env].values
        /\ StartHeap(k)[trace[k].env].values["m"].kind = "Mod"
        /\ trace[k].h[trace[k].env].values["m"].kind = "Mod"
        /\ trace[k].h[trace[k].env].values["m"].env #
               StartHeap(k)[trace[k].env].values["m"].env
        /\ envs = trace[k].h

(* C23: get on a non-empty list of length n returns the element at         *)
(* position i for 0 <= i < n and the element at position n + i for         *)
(* -n <= i < 0; get, set and pop called with a list and an index never     *)
(* abort the process, whatever the index and also for an empty list.       *)
IndexFns == {"GetFn", "SetFn", "PopFn"}

C23_WrappedIndex ==
    \A k \in Idx :
        (/\ trace[k].e = "builtin"
         /\ trace[k].s.fn \in IndexFns
         /\ Len(trace[k].r.val.items) >= (IF trace[k].s.fn = "SetFn" THEN 3 ELSE 2)
         /\ trace[k].r.val.items[1].kind = "List"
         /\ trace[k].r.val.items[2].kind = "Int") =>
            LET xs == trace[k].r.val.items[1].items
                i == trace[k].r.val.items[2].n
                n == Len(xs)
                res == trace[k + 1].r
            IN /\ trace[k + 1].e = "builtin_end"
               /\ res.tag = "Ok"
               /\ status # "aborted"
               /\ (trace[k].s.fn = "GetFn" /\ 0 <= i /\ i < n) => res = Ok(xs[i + 1])
               /\ (trace[k].s.fn = "GetFn" /\ -n <= i /\ i < 0) =>
                      res = Ok(xs[n + i + 1])

(* The builtins a hook path registers, by name. *)
Registered(path) == use_module(path, EmptyMap).reg

(* The completed Use statements before event k of the running evaluation   *)
(* that registered a builtin under the name.                               *)
UsesBefore(k, name) ==
    {j \in Idx : /\ j < k
                 /\ trace[j].e = "stmt"
                 /\ trace[j].s.t = "Use"
                 /\ trace[j].r.tag = "Ok"
                 /\ trace[j].s.path \in HookPaths
                 /\ name \in DOMAIN Registered(trace[j].s.path)}

(* The builtin registered last under the name before event k, "" if none   *)
(* ever was: the registry the evaluation started with counts as earlier.   *)
InEffect(k, name) ==
    IF UsesBefore(k, name) # {}
    THEN Registered(trace[Max(UsesBefore(k, name))].s.path)[name]
    ELSE IF name \in DOMAIN last.rg[1] THEN last.rg[1][name] ELSE ""

BoundNames == UNION {DOMAIN envs[n].values : n \in DOMAIN envs}

(* C24: there is one registry and every environment refers to it.  A call  *)
(* by name, from whatever environment, runs the builtin registered last    *)
(* under that name, wherever and whenever the registration was made, and   *)
(* runs no builtin when none was registered, whatever variables of that    *)
(* name are bound; lookup_builtin answers the same from every environment. *)
C24_SharedRegistry ==
    /\ Len(regs) = 1
    /\ \A n \in DOMAIN envs : envs[n].builtins = 1
    /\ last.op = "eval" =>
        /\ \A k \in Idx :
              (trace[k].e = "callsite" /\ trace[k].s.caller.t = "Ident") =>
                  LET fn == InEffect(k, trace[k].s.caller.ident)
                      ran == k + 1 \in Idx /\ trace[k + 1].e = "builtin"
                  IN IF fn = "" THEN ~ran ELSE ran /\ trace[k + 1].s.fn = fn
        /\ \A n \in DOMAIN envs : \A name \in DOMAIN regs[1] \cup BoundNames :
              lookup_builtin(envs, regs, n, name) = InEffect(Len(trace) + 1, name)

(* `use std/str` ran in the environment of an if body; the environments    *)
(* that existed before all answer with the new len, and the call from the  *)
(* root ran it.                                                            *)
C24_Witness ==
    /\ last.prog = Programs[52]
    /\ last.res = Ok(IntVal(2))
    /\ Len(last.pre) >= 2
    /\ last.rg[1]["len"] = "LenFn"
    /\ \A n \in DOMAIN last.pre : lookup_builtin(envs, regs, n, "len") = "StrLenFn"
    /\ \E k \in Idx : trace[k].e = "builtin" /\ trace[k].s.fn = "StrLenFn"
    /\ \E n \in DOMAIN envs : "f" \in DOMAIN envs[n].values
                              /\ lookup_builtin(envs, regs, n, "f") = ""

(* The registry in effect at event k of the running evaluation. *)
RegAt(k) == <<[name \in DOMAIN regs[1] |-> InEffect(k, name)]>>

(* The errors _eval_call itself raises for a caller it cannot call. *)
CallerErrors == {"InvalidModule", "CallerNotDefined", "MismatchedArgs"}

(* C25: a call statement evaluates its arguments from left to right in the *)
(* environment of the call before anything is done about the caller.  An   *)
(* argument that fails ends the call with that failure, whatever the       *)
(* caller is, and leaves the effects of the arguments before it and none   *)
(* of those after it.  When all arguments succeed they are what the call   *)
(* site reports, and a call that then fails with InvalidModule,            *)
(* CallerNotDefined or MismatchedArgs leaves the environments as the       *)
(* arguments left them.                                                    *)
C25_ArgsBeforeCaller ==
    \A k \in Idx :
        (InBody(k) /\ trace[k].s.t = "Call") =>
            LET s == trace[k].s
                env == trace[k].env
                as == eval_items(s.args, 1, env,
                                 StateAt(StartHeap(k), RegAt(k)), <<>>)
            IN /\ as.r.tag # "Ok" =>
                    /\ trace[k].r = as.r
                    /\ trace[k].h = as.st.h
               /\ as.r.tag = "Ok" =>
                    /\ \E j \in Idx :
                          /\ j < k
                          /\ trace[j].e = "callsite"
                          /\ trace[j].s = s
                          /\ trace[j].env = env
                          /\ trace[j].r = as.r
                          /\ trace[j].h = as.st.h
                    /\ (trace[k].r.tag = "Err" /\ trace[k].r.err \in CallerErrors) =>
                          trace[k].h = as.st.h

(* xl.g(push(xl, 9), get(xl, 0)) with xl a list: the call failed with      *)
(* InvalidModule after both arguments ran, the second one seeing the 9 the *)
(* first one pushed, and xl keeps the 9.                                   *)
C25_Witness ==
    /\ last.prog = Programs[53]
    /\ last.res = Err("InvalidModule")
    /\ envs[1].values["xl"].items = <<IntVal(9)>>
    /\ \E k \in Idx :
          /\ trace[k].e = "callsite"
          /\ Len(trace[k].r.val.items) = 2
          /\ trace[k].r.val.items[2] = IntVal(9)

(* The environments a value holds a strong reference to: the closure       *)
(* environment of a Func, the environment of a Mod, those of a List's      *)
(* items.                                                                  *)
HeldBy(v) ==
    (IF v.kind \in {"Func", "Mod"} THEN {v.env} ELSE {})
    \cup {v.items[j].env : j \in {j \in DOMAIN v.items :
                                     v.items[j].kind \in {"Func", "Mod"}}}

(* The environments node n holds a strong reference to: its parent and     *)
(* those held by the values bound in it.                                   *)
Refs(h, n) ==
    (IF h[n].parent # 0 THEN {h[n].parent} ELSE {})
    \cup UNION {HeldBy(h[n].values[x]) : x \in DOMAIN h[n].values}

(* The nodes reachable from the set S along one or more references. *)
RECURSIVE ReachableFrom(_, _)
ReachableFrom(h, S) ==
    LET T == S \cup UNION {Refs(h, n) : n \in S}
    IN IF T = S THEN S ELSE ReachableFrom(h, T)

(* C28: the strong references among environments (parent links and the     *)
(* environments held by bound Func and Mod values) form no cycle: no       *)
(* environment is reachable from itself.                                   *)
C28_NoReferenceCycle ==
    \A n \in DOMAIN envs : n \notin ReachableFrom(envs, Refs(envs, n))

(* What activation a is: "program", "cond", "loop" or "call". *)
Begins == {"program", "cond", "loop", "call"}
KindOf(a) == trace[Min(BeginOf(a, Begins))].e

(* The handlers: a loop for Break and Continue, a call for Return. *)
Handles(kind, sig) ==
    \/ kind = "loop" /\ sig \in {"Break", "Continue"}
    \/ kind = "call" /\ sig = "Return"

(* The statement at k reports a signal. *)
Signalled(k) == trace[k].e = "stmt" /\ trace[k].r.tag = "Exc"

(* C29: a signal reported by a statement was raised by it (the statement   *)
(* is a break, continue or return) or was handed on unchanged by the       *)
(* activation that ended just before.  An activation whose statement       *)
(* reports a signal it does not handle ends at once with that signal,      *)
(* unchanged; a loop takes a Continue by starting its next iteration and a *)
(* Break by ending normally, a call takes a Return by ending with the      *)
(* returned value: the handler never hands the signal it handles on.  The  *)
(* statement that was the handling loop or call completes normally in the  *)
(* activation around it, and that activation goes on with its next         *)
(* statement.                                                              *)
C29_SignalHandledOnce ==
    \A k \in Idx :
        /\ Signalled(k) =>
              LET sig == trace[k].r.err
                  n == NextOf(k)
              IN /\ \/ trace[k].s.t = sig
                    \/ /\ k > 1
                       /\ trace[k - 1].e = "end"
                       /\ trace[k - 1].a # trace[k].a
                       /\ trace[k - 1].r = trace[k].r
                 /\ n # 0
                 /\ IF ~Handles(KindOf(trace[k].a), sig)
                    THEN trace[n].e = "end" /\ trace[n].r = trace[k].r
                    ELSE CASE sig = "Continue" -> trace[n].e = "iter"
                           [] sig = "Break" ->
                                  trace[n].e = "end" /\ trace[n].r.tag = "Ok"
                           [] OTHER ->
                                  /\ trace[n].e = "end"
                                  /\ ~(trace[n].r.tag = "Exc"
                                       /\ trace[n].r.err = "Return")
        /\ (trace[k].e = "end" /\ trace[k].r.tag = "Exc") =>
              ~Handles(KindOf(trace[k].a), trace[k].r.err)
        /\ (/\ trace[k].e = "end"
            /\ trace[k].r.tag = "Ok"
            /\ PrevOf(k) # 0
            /\ Signalled(PrevOf(k))
            /\ k + 1 \in Idx
            /\ trace[k + 1].e = "stmt"
            /\ trace[k + 1].s.t \in {"Loop", "Call"}) =>
              LET p == trace[k + 1].a
                  i == trace[k + 1].i
                  n == NextOf(k + 1)
              IN /\ trace[k + 1].r = trace[k].r
                 /\ n # 0
                 /\ (KindOf(p) # "cond"
                       /\ i < Len(trace[Min(BeginOf(p, Begins))].s.body)) =>
                        trace[n].e = "stmt" /\ trace[n].i = i + 1

(* An inner loop took a Continue and then a Break while an outer loop was  *)
(* active; the outer loop went on with the `let` after the inner loop and  *)
(* the program ended normally.                                             *)
C29_Witness ==
    /\ last.prog = Programs[55]
    /\ last.res.tag = "Ok"
    /\ \E k \in Idx :
          /\ trace[k].e = "end"
          /\ KindOf(trace[k].a) = "loop"
          /\ InLoop(k + 1)
          /\ Signalled(PrevOf(k))
          /\ trace[PrevOf(k)].r.err = "Break"
          /\ \E j \in Steps(trace[k].a) :
                Signalled(j) /\ trace[j].r.err = "Continue"
          /\ trace[NextOf(k + 1)].s.t = "Var"
          /\ trace[NextOf(k + 1)].r.tag = "Ok"

(* The loops that are active at event k and began before activation a. *)
LoopsAround(a, k) ==
    {b \in 1..(a - 1) : KindOf(b) = "loop" /\ Active(b, k)}

(* C30: a Break or Continue reported by a statement of a function body     *)
(* ends the call at once with that signal: no later statement of the body  *)
(* runs and the call yields no value.  Nothing else runs until the signal  *)
(* reaches a statement of the innermost loop active around the call, which *)
(* starts its next iteration for a Continue and ends normally for a Break; *)
(* with no loop around the call the signal is the result of the program.   *)
C30_CallTransparent ==
    \A k \in Idx :
        (/\ Signalled(k)
         /\ trace[k].r.err \in {"Break", "Continue"}
         /\ KindOf(trace[k].a) = "call") =>
            LET a == trace[k].a
                n == NextOf(k)
                Ls == LoopsAround(a, k)
            IN /\ n # 0
               /\ trace[n].e = "end"
               /\ trace[n].r = trace[k].r
               /\ IF Ls = {}
                  THEN /\ last.res = trace[k].r
                       /\ \A j \in Idx : j > k =>
                             trace[j].e \in {"stmt", "end"} /\ trace[j].r = trace[k].r
                  ELSE LET m == Min({j \in Steps(Max(Ls)) : j > k})
                           nx == NextOf(m)
                       IN /\ trace[m].e = "stmt"
                          /\ trace[m].r = trace[k].r
                          /\ \A j \in (k + 1)..m :
                                trace[j].e \in {"stmt", "end"}
                                /\ trace[j].r = trace[k].r
                          /\ nx # 0
                          /\ IF trace[k].r.err = "Continue"
                             THEN trace[nx].e = "iter"
                             ELSE trace[nx].e = "end" /\ trace[nx].r.tag = "Ok"

(* ct() raised Continue inside a loop: the statement after the call did    *)
(* not run, the loop started another iteration and ended there.            *)
C30_Witness ==
    /\ last.prog = Programs[58]
    /\ last.res.tag = "Ok"
    /\ "never" \notin BoundNames
    /\ \E k \in Idx :
          /\ Signalled(k)
          /\ trace[k].r.err = "Continue"
          /\ KindOf(trace[k].a) = "call"
          /\ LoopsAround(trace[k].a, k) # {}
          /\ \E j \in Idx : j > k /\ trace[j].e = "iter"

---------------------------------------------------------------------------
(* Properties of the locking (environment.rs, hooks.rs)                    *)

(* The environment nodes whose lock thread t holds. *)
NodesHeld(t) ==
    {threads[t].held[i][2] : i \in {i \in DOMAIN threads[t].held :
                                       threads[t].held[i][1] = "env"}}

(* C26: a thread that is in declare, assign or lookup (resolve included)   *)
(* holds the lock of at most one environment node.                         *)
C26_OneNodeLock ==
    \A t \in Threads :
        threads[t].op \in {"declare", "assign", "lookup"} =>
            Cardinality(NodesHeld(t)) <= 1

(* A thread is in an operation. *)
Busy(t) == threads[t].pc # "idle"

(* The thread's next step can be taken. *)
CanStep(t) == Busy(t) /\ (Wants(t) = NoLock \/ Free(Wants(t)))

(* C27: the threads never deadlock on the locks of the environments and    *)
(* the registry: a thread never waits for a lock it holds itself (a Use    *)
(* that evaluates a module and a builtin that runs included), and as long  *)
(* as some thread is in an operation some thread can take its next step,   *)
(* so that every operation completes.                                      *)
C27_NoDeadlock ==
    /\ \A t \in Threads : Wants(t) # NoLock => ~Holds(t, Wants(t))
    /\ (\E t \in Threads : Busy(t)) => \E t \in Threads : CanStep(t)

(* A thread waits for the lock of a node that another thread holds while   *)
(* that thread, in a Use, holds it together with the lock of the module's  *)
(* environment.                                                            *)
C27_Witness ==
    \E t, u \in Threads :
        /\ t # u
        /\ Wants(t) # NoLock
        /\ Holds(u, Wants(t))
        /\ threads[u].op = "use"
        /\ Len(threads[u].held) = 2

=============================================================================
